---- MODULE Spec2Model ----
(***************************************************************************)
(* Backtesting exchange of basana: order life cycle, per-bar matching,     *)
(* balance ledger with holds, liquidity budget, fees and loans.            *)
(*                                                                         *)
(* Numbers.  A rounded Decimal is an integer counting units of the         *)
(* symbol's precision (base amounts in units of 10^-base_precision, quote  *)
(* amounts and prices in units of 10^-quote_precision).  A Decimal that    *)
(* has not been rounded yet is an exact rational <<n, d>> with d > 0.      *)
(***************************************************************************)
EXTENDS Integers, Sequences, FiniteSets, TLC

\* ---------------------------------------------------------------- bounds
MaxOrders == 2
MaxBars == 2
MaxLoans == 1

\* ------------------------------------------------------ program constants
ReindexEvery == 50
ShareDen == 4
ImpactK == 1
FeeRateDen == 10

\* ------------------------------------------------------------- vocabulary
Symbols == {"BTC", "ETH", "USD"}
Pairs == {<<"BTC", "USD">>, <<"ETH", "USD">>}
BaseSymbol(pair) == pair[1]
QuoteSymbol(pair) == pair[2]
NoBar == [none |-> TRUE]
NoPrice == 0

Abs(x) == IF x < 0 THEN -x ELSE x
Min(a, b) == IF a <= b THEN a ELSE b
Max(a, b) == IF a >= b THEN a ELSE b

\* -------------------------------------------------------- decimal helpers
\* sign of a Decimal: +1 / -1 (0 for zero)
GetSign(x) == IF x > 0 THEN 1 ELSE IF x < 0 THEN -1 ELSE 0

\* BUY receives base (+1), SELL delivers base (-1)
GetBaseSignForOperation(op) == IF op = "BUY" THEN 1 ELSE -1

\* n/d truncated toward zero to a whole number of precision units
TruncateDecimal(n, d) == IF n >= 0 THEN n \div d ELSE -((-n) \div d)

\* n/d rounded half-even to a whole number of precision units
RoundHalfEven(n, d) ==
    LET a == Abs(n)
        q == a \div d
        r == a % d
        m == IF 2 * r > d \/ (2 * r = d /\ q % 2 = 1) THEN q + 1 ELSE q
    IN  GetSign(n) * m

\* n/d rounded away from zero to a whole number of precision units
RoundUp(n, d) ==
    LET a == Abs(n)
        q == a \div d
        m == IF a % d = 0 THEN q ELSE q + 1
    IN  GetSign(n) * m

\* dictionaries symbol -> amount are functions over a subset of Symbols
EmptyMap == [s \in {} |-> 0]
Get(m, s) == IF s \in DOMAIN m THEN m[s] ELSE 0
AddAmounts(a, b) == [s \in (DOMAIN a) \cup (DOMAIN b) |-> Get(a, s) + Get(b, s)]
RemoveEmptyAmounts(m) == [s \in {x \in DOMAIN m : m[x] # 0} |-> m[s]]
\* the same for dictionaries of unrounded amounts <<n, d>>
RemoveEmptyRationals(m) == [s \in {x \in DOMAIN m : m[x][1] # 0} |-> m[s]]

\* ------------------------------------------------------- balance ledger
\* AccountBalances: available and borrowed per symbol, the hold per symbol,
\* the hold of every accepted order per symbol, and what each order held
\* when it was accepted (the reference of the hold of its residual).
ZeroMap == [s \in Symbols |-> 0]

NewAccountBalances(initial_balances) ==
    [available |-> initial_balances, hold |-> ZeroMap, borrowed |-> ZeroMap,
     holdsByOrder |-> <<>>, acceptedHolds |-> <<>>]

GetAvailableBalance(bal, s) == bal.available[s]
GetBalanceOnHold(bal, s) == bal.hold[s]
GetBorrowedBalance(bal, s) == bal.borrowed[s]
GetBalanceOnHoldForOrder(bal, id, s) ==
    IF id \in DOMAIN bal.holdsByOrder THEN bal.holdsByOrder[id][s] ELSE 0

\* order_accepted: move required_holds from available to the order's hold,
\* all symbols or none.
OrderAccepted(bal, id, required) ==
    LET held == [s \in Symbols |-> Get(required, s)]
    IN  IF \E s \in Symbols : held[s] > bal.available[s]
        THEN [ok |-> FALSE, bal |-> bal]
        ELSE [ok |-> TRUE,
              bal |-> [bal EXCEPT
                 !.available = [s \in Symbols |-> bal.available[s] - held[s]],
                 !.hold = [s \in Symbols |-> bal.hold[s] + held[s]],
                 !.holdsByOrder = (id :> held) @@ bal.holdsByOrder,
                 !.acceptedHolds = (id :> held) @@ bal.acceptedHolds]]

\* Hold expected for the residual of a still open order: the unfilled amount
\* at the reference price, i.e. the share of the accepted hold that the
\* unfilled amount represents.
ExpectedHold(bal, order, s) ==
    IF order.id \in DOMAIN bal.acceptedHolds
    THEN TruncateDecimal(bal.acceptedHolds[order.id][s] * (order.amount - order.amount_filled),
                         order.amount)
    ELSE 0

\* order_updated that debits available and leaves the holds alone
OrderUpdated_Unchecked(bal, order, final_updates) ==
    [ok |-> TRUE,
     bal |-> [bal EXCEPT !.available =
                [s \in Symbols |-> bal.available[s] + Get(final_updates, s)]]]

\* order_updated: apply final_updates to available, then release the hold of
\* a closed order, or rebalance the hold of an open one to the hold expected
\* for its residual.  One transaction: rejected as a whole on a shortfall.
OrderUpdated(bal, order, final_updates) ==
    LET id == order.id
        a1 == [s \in Symbols |-> bal.available[s] + Get(final_updates, s)]
        h  == [s \in Symbols |-> GetBalanceOnHoldForOrder(bal, id, s)]
        nh == [s \in Symbols |->
                IF order.state # "OPEN" THEN 0
                ELSE Max(0, Min(ExpectedHold(bal, order, s), h[s] + a1[s]))]
        a2 == [s \in Symbols |-> a1[s] + h[s] - nh[s]]
    IN  IF \E s \in Symbols : a2[s] < 0
        THEN [ok |-> FALSE, bal |-> bal]
        ELSE [ok |-> TRUE,
              bal |-> [bal EXCEPT
                 !.available = a2,
                 !.hold = [s \in Symbols |-> bal.hold[s] + nh[s] - h[s]],
                 !.holdsByOrder = IF id \in DOMAIN bal.holdsByOrder
                                  THEN [bal.holdsByOrder EXCEPT ![id] = nh]
                                  ELSE bal.holdsByOrder]]

\* accept_loan: credit the borrowed amount to available and to borrowed, and
\* move the collateral from available to hold.
AcceptLoan(bal, loan) ==
    LET a1 == [s \in Symbols |->
                bal.available[s]
                + (IF s = loan.borrowed_symbol THEN loan.borrowed_amount ELSE 0)
                - loan.collateral[s]]
    IN  IF \E s \in Symbols : a1[s] < 0
        THEN [ok |-> FALSE, bal |-> bal]
        ELSE [ok |-> TRUE,
              bal |-> [bal EXCEPT
                 !.available = a1,
                 !.borrowed = [bal.borrowed EXCEPT
                                 ![loan.borrowed_symbol] = @ + loan.borrowed_amount],
                 !.hold = [s \in Symbols |-> bal.hold[s] + loan.collateral[s]]]]

\* repay_loan: debit the borrowed amount and the interest from available,
\* reduce borrowed, release the collateral; NotEnoughBalance and no change
\* if an available balance would become negative.
RepayLoan(bal, loan, interest) ==
    LET a1 == [s \in Symbols |->
                bal.available[s]
                - (IF s = loan.borrowed_symbol THEN loan.borrowed_amount ELSE 0)
                - Get(interest, s)
                + loan.collateral[s]]
    IN  IF \E s \in Symbols : a1[s] < 0
        THEN [ok |-> FALSE, bal |-> bal]
        ELSE [ok |-> TRUE,
              bal |-> [bal EXCEPT
                 !.available = a1,
                 !.borrowed = [bal.borrowed EXCEPT
                                 ![loan.borrowed_symbol] = @ - loan.borrowed_amount],
                 !.hold = [s \in Symbols |-> bal.hold[s] - loan.collateral[s]]]]


\* ------------------------------------------------------------- liquidity
\* VolumeShareImpact.  The budget of a bar is volume / ShareDen; used counts
\* the base amount taken so far in units of 1 / ShareDen.
LiquidityOnBar(bar) == [volume |-> bar.volume, used |-> 0]

\* available_liquidity, in units of 1 / ShareDen of a base unit
AvailableLiquidity(liq) == liq.volume - liq.used

\* take_liquidity(base amount, in base units)
TakeLiquidity(liq, base_amount) == [liq EXCEPT !.used = @ + base_amount * ShareDen]

\* calculate_price: ref_price * (1 + sign * ImpactK * share^2), share being
\* the share of the bar's volume consumed once amountQ (in 1 / ShareDen) is
\* taken; result is the price <<n, d>>.
CalculatePrice(liq, sign, amountQ, ref_price) ==
    LET dd == (ShareDen * liq.volume) * (ShareDen * liq.volume)
        x  == liq.used + amountQ
    IN  <<ref_price * (dd + sign * ImpactK * x * x), dd>>

\* ------------------------------------------------------------------ fees
\* Percentage(1 / FeeRateDen): charged on the side the trader pays, quote
\* for BUY and base for SELL; amounts are not negative and not yet rounded.
CalculateFees(fee_strategy, order, balance_updates) ==
    LET paid == IF order.operation = "BUY" THEN QuoteSymbol(order.pair)
                ELSE BaseSymbol(order.pair)
    IN  IF fee_strategy = "NoFee" \/ Get(balance_updates, paid) >= 0
        THEN EmptyMap
        ELSE (paid :> <<Abs(balance_updates[paid]), FeeRateDen>>)

\* ---------------------------------------------------------------- orders
IsOpen(order) == order.state = "OPEN"
AmountPending(order) == order.amount - order.amount_filled

\* the (base, quote) movement of a fill of amountQ / ShareDen base at price
BalanceUpdatesFor(order, amountQ, price) ==
    LET sign == GetBaseSignForOperation(order.operation)
    IN  (BaseSymbol(order.pair) :> <<sign * amountQ, ShareDen>>)
        @@ (QuoteSymbol(order.pair) :> <<-sign * amountQ * price[1], ShareDen * price[2]>>)

\* the requested amount without the clipping to what is left of the order
RequestedAmount_Unclipped(order, liq) == AvailableLiquidity(liq)

\* base amount an order asks of a bar: what is left of it, clipped to the
\* liquidity budget (in units of 1 / ShareDen)
RequestedAmount(order, liq) == Min(AmountPending(order) * ShareDen, AvailableLiquidity(liq))

\* a stop price that every bar reaches
StopTriggered_Always(order, bar) == TRUE

\* the bar reached the stop price
StopTriggered(order, bar) ==
    IF order.operation = "BUY" THEN bar.high >= order.stop_price
    ELSE bar.low <= order.stop_price

\* a limit price that every bar touches
LimitTouched_Always(order, bar) == TRUE

\* the bar touched the limit price
LimitTouched(order, bar) ==
    IF order.operation = "BUY" THEN bar.low <= order.limit_price
    ELSE bar.high >= order.limit_price

\* stop_hit after the order has looked at the bar
StopHitAfter(order, bar) ==
    IF order.type \in {"Stop", "StopLimit"}
    THEN order.stop_hit \/ StopTriggered(order, bar)
    ELSE order.stop_hit

\* get_balance_updates: the movement the order would realize on this bar,
\* EmptyMap when it does not fill
GetBalanceUpdates(order, bar, liq) ==
    LET amountQ == RequestedAmount(order, liq)
        sign    == GetBaseSignForOperation(order.operation)
        market  == BalanceUpdatesFor(order, amountQ,
                                     CalculatePrice(liq, sign, amountQ, bar.open))
    IN  IF amountQ <= 0 THEN EmptyMap
        ELSE CASE order.type = "Market" -> market
               [] order.type = "Limit" ->
                    IF LimitTouched(order, bar)
                    THEN BalanceUpdatesFor(order, amountQ, <<order.limit_price, 1>>)
                    ELSE EmptyMap
               [] order.type = "Stop" ->
                    IF order.stop_hit THEN market
                    ELSE IF StopTriggered(order, bar)
                    THEN BalanceUpdatesFor(order, amountQ,
                            <<IF order.operation = "BUY"
                              THEN Max(order.stop_price, bar.open)
                              ELSE Min(order.stop_price, bar.open), 1>>)
                    ELSE EmptyMap
               [] order.type = "StopLimit" ->
                    IF StopHitAfter(order, bar) /\ LimitTouched(order, bar)
                    THEN BalanceUpdatesFor(order, amountQ, <<order.limit_price, 1>>)
                    ELSE EmptyMap

\* the order once get_balance_updates has looked at the bar: a stop that the
\* bar reached is recorded, nothing else changes
OrderAfterGetBalanceUpdates(order, bar) ==
    [order EXCEPT !.stop_hit = StopHitAfter(order, bar)]

\* add_fill that completes the order on any fill
AddFill_Completes(order, when, balance_updates, fees) ==
    [order EXCEPT
        !.amount_filled = @ + Abs(balance_updates[BaseSymbol(order.pair)]),
        !.fills = Append(@, [when |-> when, balance_updates |-> balance_updates,
                             fees |-> fees]),
        !.state = "COMPLETED"]

\* add_fill: commit a fill; COMPLETED once the whole amount is filled
AddFill(order, when, balance_updates, fees) ==
    LET filled == order.amount_filled + Abs(balance_updates[BaseSymbol(order.pair)])
    IN  [order EXCEPT
            !.amount_filled = filled,
            !.fills = Append(@, [when |-> when, balance_updates |-> balance_updates,
                                 fees |-> fees]),
            !.state = IF filled = order.amount THEN "COMPLETED" ELSE @]

\* not_filled: a Market order is valid for one bar only
NotFilled(order) ==
    IF order.type = "Market" THEN [order EXCEPT !.state = "CANCELED"] ELSE order

\* cancel
Cancel(order) == [order EXCEPT !.state = "CANCELED"]


\* -------------------------------------------------------------- requests
\* validate(pair_info): amount positive and of the base precision, prices
\* positive.  request.amount is in units of 1 / ShareDen of a base unit.
ValidRequest(req) ==
    /\ req.amount > 0
    /\ req.amount % ShareDen = 0
    /\ req.type \in {"Limit", "StopLimit"} => req.limit_price > 0
    /\ req.type \in {"Stop", "StopLimit"} => req.stop_price > 0

\* get_estimated_fill_price: NoPrice for a Market order
GetEstimatedFillPrice(req) ==
    CASE req.type = "Market" -> NoPrice
      [] req.type = "Limit" -> req.limit_price
      [] req.type = "Stop" -> req.stop_price
      [] req.type = "StopLimit" -> req.limit_price

\* request.create_order(id)
CreateOrderFromRequest(req, id) ==
    [id |-> id, pair |-> req.pair, operation |-> req.operation, type |-> req.type,
     amount |-> req.amount \div ShareDen, amount_filled |-> 0, state |-> "OPEN",
     fills |-> <<>>, limit_price |-> req.limit_price, stop_price |-> req.stop_price,
     stop_hit |-> FALSE]

\* ------------------------------------------------------ exchange helpers
\* _round_balance_updates that rounds the base amount as it rounds the quote
RoundBalanceUpdates_RoundsBase(pair, balance_updates) ==
    RemoveEmptyAmounts(
        [s \in DOMAIN balance_updates |->
            IF s \in {BaseSymbol(pair), QuoteSymbol(pair)}
            THEN RoundHalfEven(balance_updates[s][1], balance_updates[s][2])
            ELSE balance_updates[s][1]])

\* _round_balance_updates: base truncated, quote rounded half-even, empty
\* amounts removed
RoundBalanceUpdates(pair, balance_updates) ==
    RemoveEmptyAmounts(
        [s \in DOMAIN balance_updates |->
            IF s = BaseSymbol(pair)
            THEN TruncateDecimal(balance_updates[s][1], balance_updates[s][2])
            ELSE IF s = QuoteSymbol(pair)
            THEN RoundHalfEven(balance_updates[s][1], balance_updates[s][2])
            ELSE balance_updates[s][1]])

\* _round_fees that rounds as _round_balance_updates rounds the quote amount
RoundFees_HalfEven(pair, fees) ==
    RemoveEmptyRationals(
        [s \in DOMAIN fees |->
            IF s \in {BaseSymbol(pair), QuoteSymbol(pair)}
            THEN <<RoundHalfEven(fees[s][1], fees[s][2]), 1>>
            ELSE fees[s]])

\* _round_fees: a fee in the base or the quote symbol is rounded up to the
\* precision of the symbol, a fee in another symbol is left as it is, empty
\* amounts are removed.  The result is a dictionary of amounts <<n, d>>.
RoundFees(pair, fees) ==
    RemoveEmptyRationals(
        [s \in DOMAIN fees |->
            IF s \in {BaseSymbol(pair), QuoteSymbol(pair)}
            THEN <<RoundUp(fees[s][1], fees[s][2]), 1>>
            ELSE fees[s]])

\* the fees of an order as the ledger counts them: the fee strategies charge
\* in the base or the quote symbol of the pair, so that every rounded fee is a
\* whole number n/1 of units of the precision
FeeUnits(fees) == [s \in DOMAIN fees |-> fees[s][1]]

\* assert_has_value that takes the sign the other way round
AssertHasValue_Opposite(balance_updates, symbol, sign) ==
    /\ symbol \in DOMAIN balance_updates
    /\ balance_updates[symbol][1] # 0
    /\ GetSign(balance_updates[symbol][1]) = -sign

\* assert_has_value
AssertHasValue(balance_updates, symbol, sign) ==
    /\ symbol \in DOMAIN balance_updates
    /\ balance_updates[symbol][1] # 0
    /\ GetSign(balance_updates[symbol][1]) = sign

\* _check_balance_requirements that finds every balance sufficient
CheckBalanceRequirements_Always(bal, required_balances, order_id) == TRUE

\* _check_balance_requirements: TRUE iff no symbol is short; order_id = 0
\* when no order is given
CheckBalanceRequirements(bal, required_balances, order_id) ==
    \A s \in DOMAIN required_balances :
        LET available_balance ==
                GetAvailableBalance(bal, s)
                + (IF order_id # 0 THEN GetBalanceOnHoldForOrder(bal, order_id, s) ELSE 0)
        IN  Max(required_balances[s] - available_balance, 0) = 0

\* _check_balance_requirements that never raises
RaiseIfShort_Never(bal, required_balances) == FALSE

\* _check_balance_requirements(..., raise_if_short=True) raises
RaiseIfShort(bal, required_balances) ==
    ~CheckBalanceRequirements(bal, required_balances, 0)

\* _get_last_price that gives a price of one unit before the first bar
GetLastPrice_One(last_bars, pair) ==
    IF last_bars[pair] = NoBar THEN 1 ELSE last_bars[pair].close

\* _get_last_price
GetLastPrice(last_bars, pair) ==
    IF last_bars[pair] = NoBar THEN NoPrice ELSE last_bars[pair].close

\* the negative entries of the updates, as amounts required
RequiredBalances(updates) ==
    [s \in {x \in DOMAIN updates : updates[x] < 0} |-> -updates[s]]

\* _estimate_required_balances
EstimateRequiredBalances(req, last_bars, fee_strategy) ==
    LET base_sign == GetBaseSignForOperation(req.operation)
        own_price == GetEstimatedFillPrice(req)
        estimated_fill_price ==
            IF own_price = NoPrice THEN GetLastPrice(last_bars, req.pair) ELSE own_price
        raw == IF estimated_fill_price # NoPrice
               THEN (BaseSymbol(req.pair) :> <<req.amount * base_sign, ShareDen>>)
                    @@ (QuoteSymbol(req.pair) :>
                          <<req.amount * estimated_fill_price * (-base_sign), ShareDen>>)
               ELSE (BaseSymbol(req.pair) :> <<req.amount * base_sign, ShareDen>>)
        estimated == RoundBalanceUpdates(req.pair, raw)
        fees == IF Cardinality(DOMAIN estimated) = 2
                THEN FeeUnits(RoundFees(req.pair,
                        CalculateFees(fee_strategy,
                                      CreateOrderFromRequest(req, 0), estimated)))
                ELSE EmptyMap
    IN  RequiredBalances(AddAmounts(estimated, fees))


\* ----------------------------------------------------------------- state
VARIABLES
    orders,          \* _orders._items: the orders by id (ids are 1, 2, ...)
    openItems,       \* _orders._open_items: ids, may hold closed orders
    reindexCounter,  \* _orders._reindex_counter
    loans,           \* _loans._items: the loans by id
    balances,        \* _balances
    lastBars,        \* _last_bars: pair -> last bar, NoBar before the first
    feeStrategy,     \* _fee_strategy
    lendingStrategy, \* _lending_strategy
    bidAskSpread,    \* _bid_ask_spread: a percentage <<n, d>>
    nbars,           \* bars delivered so far (the clock of the dispatcher)
    barLog,          \* what the matching loop did on the last bar
    result,          \* the last public operation and its outcome
    barEventSource,  \* _bar_event_source: pair -> the events pushed, not yet dispatched
    handling,        \* the bar event a subscriber's handler is handling, or NoEvent
    createdIn,       \* per order: when of the event whose handler created it, or 0
    generators,      \* the get_open generators of _orders that are suspended at a yield
    managerLoans,    \* LoanManager._loans._items: the loans by id
    collateralByLoan, \* LoanManager._collateral_by_loan: loan id -> collateral
    refusedRepayments, \* history: the loans whose repayment failed for a balance
    runs,            \* two exchanges that are given the same calls and bars
    liquidityStrategies, \* _liquidity_strategies: pair -> liquidity strategy instance
    factoryCalls,    \* the instances _liquidity_strategy_factory has created (they are 1, 2, ...)
    liquidityUsed    \* history: pair -> the instance its last bar was matched with, 0 before

vars == <<orders, openItems, reindexCounter, loans, balances, lastBars,
          feeStrategy, lendingStrategy, bidAskSpread, nbars, barLog, result,
          barEventSource, handling, createdIn, generators, managerLoans,
          collateralByLoan, refusedRepayments, runs, liquidityStrategies,
          factoryCalls, liquidityUsed>>

\* the values of the variables now; an operation is modelled by the values it
\* leaves, [State EXCEPT ...], and the action is that the variables take them
State ==
    [orders |-> orders, openItems |-> openItems, reindexCounter |-> reindexCounter,
     loans |-> loans, balances |-> balances, lastBars |-> lastBars,
     feeStrategy |-> feeStrategy, lendingStrategy |-> lendingStrategy,
     bidAskSpread |-> bidAskSpread, nbars |-> nbars, barLog |-> barLog,
     result |-> result, barEventSource |-> barEventSource, handling |-> handling,
     createdIn |-> createdIn, generators |-> generators, managerLoans |-> managerLoans,
     collateralByLoan |-> collateralByLoan, refusedRepayments |-> refusedRepayments,
     runs |-> runs, liquidityStrategies |-> liquidityStrategies,
     factoryCalls |-> factoryCalls, liquidityUsed |-> liquidityUsed]

\* the variables take the values of n
Becomes(n) ==
    /\ orders' = n.orders
    /\ openItems' = n.openItems
    /\ reindexCounter' = n.reindexCounter
    /\ loans' = n.loans
    /\ balances' = n.balances
    /\ lastBars' = n.lastBars
    /\ feeStrategy' = n.feeStrategy
    /\ lendingStrategy' = n.lendingStrategy
    /\ bidAskSpread' = n.bidAskSpread
    /\ nbars' = n.nbars
    /\ barLog' = n.barLog
    /\ result' = n.result
    /\ barEventSource' = n.barEventSource
    /\ handling' = n.handling
    /\ createdIn' = n.createdIn
    /\ generators' = n.generators
    /\ managerLoans' = n.managerLoans
    /\ collateralByLoan' = n.collateralByLoan
    /\ refusedRepayments' = n.refusedRepayments
    /\ runs' = n.runs
    /\ liquidityStrategies' = n.liquidityStrategies
    /\ factoryCalls' = n.factoryCalls
    /\ liquidityUsed' = n.liquidityUsed

\* no bar event is being handled
NoEvent == [pair |-> <<>>, when |-> 0]


\* ---------------------------------------------------------------- inputs
\* the requests the strategy makes; amounts in units of 1 / ShareDen
Request(type, operation, pair, amount, limit_price, stop_price) ==
    [type |-> type, operation |-> operation, pair |-> pair, amount |-> amount,
     limit_price |-> limit_price, stop_price |-> stop_price]
BtcUsd == <<"BTC", "USD">>
EthUsd == <<"ETH", "USD">>
Requests ==
    { Request("Market", "BUY", BtcUsd, 12, NoPrice, NoPrice),
      Request("Market", "SELL", BtcUsd, 4, NoPrice, NoPrice),
      Request("Limit", "BUY", BtcUsd, 4, 9, NoPrice),
      Request("Limit", "BUY", BtcUsd, 12, 12, NoPrice),
      Request("Limit", "SELL", BtcUsd, 12, 12, NoPrice),
      Request("Stop", "BUY", BtcUsd, 4, NoPrice, 12),
      Request("StopLimit", "BUY", BtcUsd, 4, 12, 12),
      Request("Limit", "BUY", EthUsd, 4, 9, NoPrice),
      \* requests that do not validate: no amount, an amount that is not of
      \* the base precision, a stop price that is not positive
      Request("Limit", "BUY", BtcUsd, 0, 9, NoPrice),
      Request("Market", "SELL", BtcUsd, 2, NoPrice, NoPrice),
      Request("StopLimit", "BUY", BtcUsd, 4, 12, -1) }

\* bars: low <= open, close <= high, volume >= 0
Bar(pair, open, high, low, close, volume) ==
    [pair |-> pair, open |-> open, high |-> high, low |-> low, close |-> close,
     volume |-> volume]
Bars ==
    { Bar(BtcUsd, 10, 12, 9, 11, 10),
      Bar(BtcUsd, 12, 13, 11, 12, 2),
      Bar(BtcUsd, 10, 10, 10, 10, 0),
      Bar(EthUsd, 10, 12, 9, 11, 10) }

InitialBalances == [s \in Symbols |-> IF s = "USD" THEN 40 ELSE 3]
\* the exchanges under test: fee strategy, lending strategy, and the
\* _reindex_counter left by that many get_open_orders calls on the new exchange
Configurations ==
    { [fee |-> "Percentage", lending |-> "NoLoans", counter |-> 0,
       spread |-> <<1, 2>>],
      [fee |-> "NoFee", lending |-> "Collateralized", counter |-> ReindexEvery - 2,
       spread |-> <<50, 1>>] }

Init ==
    /\ orders = <<>>
    /\ openItems = <<>>
    /\ loans = <<>>
    /\ balances = NewAccountBalances(InitialBalances)
    /\ lastBars = [p \in Pairs |-> NoBar]
    /\ \E c \in Configurations :
          /\ feeStrategy = c.fee
          /\ lendingStrategy = c.lending
          /\ bidAskSpread = c.spread
          /\ reindexCounter = c.counter
    /\ nbars = 0
    /\ barLog = [pair |-> <<>>, when |-> 0, entries |-> <<>>]
    /\ result = [op |-> "init", status |-> "ok", id |-> 0]
    /\ barEventSource = <<>>
    /\ handling = NoEvent
    /\ createdIn = <<>>
    /\ generators = <<>>
    /\ managerLoans = <<>>
    /\ collateralByLoan = <<>>
    /\ refusedRepayments = {}
    /\ runs = <<>>
    /\ liquidityStrategies = <<>>
    /\ factoryCalls = 0
    /\ liquidityUsed = [p \in Pairs |-> 0]

\* ------------------------------------------------------- the matching loop
\* The loop works on st = [orders, bal, liq, error, log, newOpen]: the
\* orders, the ledger and the liquidity left by the orders processed before,
\* the exception that ended the loop ("none" if none), the log of the bar
\* and the open items collected for the reindexing.
SetOrder(st, id, order) == [st EXCEPT !.orders = [st.orders EXCEPT ![id] = order]]

LogEntry(st, id, liq2, filled) ==
    [id |-> id, before |-> AvailableLiquidity(st.liq), after |-> AvailableLiquidity(liq2),
     filled |-> filled]

\* order_not_filled that calls order.cancel() in place of order.not_filled()
OrderNotFilled_Cancels(st, id) ==
    LET order == Cancel(st.orders[id])
        upd   == OrderUpdated(st.bal, order, EmptyMap)
        st1   == [SetOrder(st, id, order)
                    EXCEPT !.log = Append(@, LogEntry(st, id, st.liq, 0))]
    IN  IF upd.ok THEN [st1 EXCEPT !.bal = upd.bal]
        ELSE [st1 EXCEPT !.error = "NotEnoughBalance"]

\* order_not_filled without the release of the holds
OrderNotFilled_KeepHold(st, id) ==
    [SetOrder(st, id, NotFilled(st.orders[id]))
        EXCEPT !.log = Append(@, LogEntry(st, id, st.liq, 0))]

\* order_not_filled without the call of order.not_filled()
OrderNotFilled_Skip(st, id) ==
    [st EXCEPT !.log = Append(@, LogEntry(st, id, st.liq, 0))]

\* order_not_filled: order.not_filled(), then release the holds if the order
\* is no longer open
OrderNotFilled(st, id) ==
    LET order == NotFilled(st.orders[id])
        upd   == OrderUpdated(st.bal, order, EmptyMap)
        st1   == [SetOrder(st, id, order)
                    EXCEPT !.log = Append(@, LogEntry(st, id, st.liq, 0))]
    IN  IF IsOpen(order) THEN st1
        ELSE IF upd.ok THEN [st1 EXCEPT !.bal = upd.bal]
        ELSE [st1 EXCEPT !.error = "NotEnoughBalance"]

\* the commit of a fill without take_liquidity
CommitFill_NoTake(st, id, bar, when, balance_updates, fees, final_updates) ==
    LET filled == Abs(balance_updates[BaseSymbol(bar.pair)])
        order  == AddFill(st.orders[id], when, balance_updates, fees)
        upd    == OrderUpdated(st.bal, order, final_updates)
        st1    == [SetOrder(st, id, order)
                     EXCEPT !.log = Append(@, LogEntry(st, id, st.liq, filled))]
    IN  IF upd.ok THEN [st1 EXCEPT !.bal = upd.bal]
        ELSE [st1 EXCEPT !.error = "NotEnoughBalance"]

\* the commit of a fill: take_liquidity, add_fill, order_updated
CommitFill(st, id, bar, when, balance_updates, fees, final_updates) ==
    LET filled == Abs(balance_updates[BaseSymbol(bar.pair)])
        liq2   == TakeLiquidity(st.liq, filled)
        order  == AddFill(st.orders[id], when, balance_updates, fees)
        upd    == OrderUpdated(st.bal, order, final_updates)
        st1    == [SetOrder(st, id, order)
                     EXCEPT !.liq = liq2,
                            !.log = Append(@, LogEntry(st, id, liq2, filled))]
    IN  IF upd.ok THEN [st1 EXCEPT !.bal = upd.bal]
        ELSE [st1 EXCEPT !.error = "NotEnoughBalance"]

\* _process_order
ProcessOrder(st, id, bar, when, fee_strategy) ==
    LET order0 == st.orders[id]
        prev_state == order0.state
        raw    == GetBalanceUpdates(order0, bar, st.liq)
        st0    == SetOrder(st, id, OrderAfterGetBalanceUpdates(order0, bar))
        order  == st0.orders[id]
        base_sign == GetBaseSignForOperation(order.operation)
        balance_updates == RoundBalanceUpdates(order.pair, raw)
        fees   == FeeUnits(RoundFees(order.pair,
                                     CalculateFees(fee_strategy, order, balance_updates)))
        final_updates == RemoveEmptyAmounts(AddAmounts(balance_updates, fees))
        required_balances == RequiredBalances(final_updates)
        balance_ok == CheckBalanceRequirements(st0.bal, required_balances, id)
    IN  IF order.state # prev_state THEN [st0 EXCEPT !.error = "AssertionError"]
        ELSE IF raw = EmptyMap THEN OrderNotFilled(st0, id)
        ELSE IF ~ ( /\ AssertHasValue(raw, BaseSymbol(order.pair), base_sign)
                    /\ AssertHasValue(raw, QuoteSymbol(order.pair), -base_sign) )
        THEN [st0 EXCEPT !.error = "AssertionError"]
        ELSE IF \/ BaseSymbol(order.pair) \notin DOMAIN balance_updates
                \/ QuoteSymbol(order.pair) \notin DOMAIN balance_updates
        THEN OrderNotFilled(st0, id)
        ELSE IF balance_ok
        THEN CommitFill(st0, id, bar, when, balance_updates, fees, final_updates)
        ELSE OrderNotFilled(st0, id)

\* get_open driven by the loop of _process_orders: the items of _open_items
\* from position k on; an item is yielded if it is open, processed if it is
\* of the bar's pair, and collected if it is still open afterwards
RECURSIVE ProcessOpenItems(_, _, _, _, _, _)
ProcessOpenItems(st, items, k, bar, when, fee_strategy) ==
    IF k > Len(items) \/ st.error # "none" THEN st
    ELSE LET id  == items[k]
             st1 == IF ~IsOpen(st.orders[id]) THEN st
                    ELSE IF st.orders[id].pair = bar.pair
                    THEN ProcessOrder(st, id, bar, when, fee_strategy)
                    ELSE st
             st2 == IF IsOpen(st.orders[id]) /\ st1.error = "none" /\ IsOpen(st1.orders[id])
                    THEN [st1 EXCEPT !.newOpen = Append(@, id)]
                    ELSE st1
         IN  ProcessOpenItems(st2, items, k + 1, bar, when, fee_strategy)

\* _process_orders that walks the open items from the last to the first
ProcessOrders_Reversed(bar, when) ==
    ProcessOpenItems([orders |-> orders, bal |-> balances, liq |-> LiquidityOnBar(bar),
                      error |-> "none", log |-> <<>>, newOpen |-> <<>>],
                     [k \in DOMAIN openItems |-> openItems[Len(openItems) + 1 - k]],
                     1, bar, when, feeStrategy)

\* _process_orders
ProcessOrders(bar, when) ==
    ProcessOpenItems([orders |-> orders, bal |-> balances, liq |-> LiquidityOnBar(bar),
                      error |-> "none", log |-> <<>>, newOpen |-> <<>>],
                     openItems, 1, bar, when, feeStrategy)

\* _open_items after a get_open that ran with the given outcome
OpenItemsAfter(counter, st) ==
    IF counter % ReindexEvery = 0 /\ st.error = "none" THEN st.newOpen ELSE openItems


\* --------------------------------------------------------------- actions
\* create_order that does not validate the request
RequestRejected_Never(req) == FALSE

\* create_order: order_request.validate(pair_info) raises
RequestRejected(req) == ~ValidRequest(req)

\* create_order that does not tell the ledger of the accepted order
AcceptOrder_Skip(bal, id, required_balances) == [ok |-> TRUE, bal |-> bal]

\* create_order: update/hold balances
AcceptOrder(bal, id, required_balances) == OrderAccepted(bal, id, required_balances)

\* create_order (create_market_order, create_limit_order, ...): the values it
\* leaves
CreateOrderStep(req) ==
    LET id == Len(orders) + 1
        required_balances == EstimateRequiredBalances(req, lastBars, feeStrategy)
        order == CreateOrderFromRequest(req, id)
        acc == AcceptOrder(balances, id, required_balances)
    IN  IF RequestRejected(req)
        THEN [State EXCEPT
                !.result = [op |-> "create_order", status |-> "Invalid request", id |-> 0]]
        ELSE IF RaiseIfShort(balances, required_balances)
        THEN [State EXCEPT
                !.result = [op |-> "create_order", status |-> "Not enough balance",
                            id |-> 0]]
        ELSE [State EXCEPT
                !.orders = Append(orders, order),
                !.createdIn = Append(createdIn, handling.when),
                !.openItems = IF IsOpen(order) THEN Append(openItems, id) ELSE openItems,
                !.balances = acc.bal,
                !.result = [op |-> "create_order",
                            status |-> IF acc.ok THEN "ok" ELSE "NotEnoughBalance",
                            id |-> id]]

\* the strategy makes no more than MaxOrders requests
CreateOrderEnabled == Len(orders) < MaxOrders

\* create_order
CreateOrder(req) == CreateOrderEnabled /\ Becomes(CreateOrderStep(req))

\* cancel_order that cancels whatever the state of the order
CancelAllowed_Always(order) == TRUE

\* cancel_order without the update of the balances
CancelOrderUpdate_Skip(bal, order) == [ok |-> TRUE, bal |-> bal]

\* cancel_order refuses an order that is not open
CancelAllowed(order) == IsOpen(order)

\* cancel_order updates the balances to release any pending hold
CancelOrderUpdate(bal, order) == OrderUpdated(bal, order, EmptyMap)

\* cancel_order: the values it leaves
CancelOrderStep(id) ==
    IF id \notin DOMAIN orders
    THEN [State EXCEPT
            !.result = [op |-> "cancel_order", status |-> "Order not found", id |-> id]]
    ELSE IF ~CancelAllowed(orders[id])
    THEN [State EXCEPT
            !.result = [op |-> "cancel_order", status |-> "Order not open", id |-> id]]
    ELSE LET order == Cancel(orders[id])
             upd == CancelOrderUpdate(balances, order)
         IN  [State EXCEPT
                !.orders = [orders EXCEPT ![id] = order],
                !.balances = upd.bal,
                !.result = [op |-> "cancel_order",
                            status |-> IF upd.ok THEN "ok" ELSE "NotEnoughBalance",
                            id |-> id]]

\* cancel_order
CancelOrder(id) == Becomes(CancelOrderStep(id))

\* _on_bar_event that pushes the event to every event source
ForwardTargets_All(pair) == DOMAIN barEventSource

\* _on_bar_event: the event source of the bar's pair, if any
ForwardTargets(pair) == IF pair \in DOMAIN barEventSource THEN {pair} ELSE {}

\* _on_bar_event that forwards the event of the bar that is matched next
ForwardedEvent_Ahead(bar, when) == [pair |-> bar.pair, when |-> when + 1]

\* _on_bar_event: the event pushed is the event that was matched
ForwardedEvent(bar, when) == [pair |-> bar.pair, when |-> when]

\* event_source.push(event) on each of the targets
Push(sources, targets, event) ==
    [p \in DOMAIN sources |-> IF p \in targets THEN Append(sources[p], event)
                              ELSE sources[p]]

\* _liquidity_strategies.get(pair): NoStrategy for None
NoStrategy == 0
GetLiquidityStrategy(strategies, pair) ==
    IF pair \in DOMAIN strategies THEN strategies[pair] ELSE NoStrategy

\* _on_bar_event that records the bar for every pair
RecordLastBar_All(last_bars, bar) == [p \in DOMAIN last_bars |-> bar]

\* _on_bar_event: self._last_bars[event.bar.pair] = event.bar
RecordLastBar(last_bars, bar) == [last_bars EXCEPT ![bar.pair] = bar]

\* _on_bar_event: record the bar, match the open orders of its pair, forward
\* the event; an exception of the matching loop ends the handler
OnBarEventStep(bar) ==
    LET when == nbars + 1
        \* _process_orders: the strategy of the pair, or a new one of the factory
        found == GetLiquidityStrategy(liquidityStrategies, bar.pair)
        liquidity_strategy == IF found = NoStrategy THEN factoryCalls + 1 ELSE found
        st == ProcessOrders(bar, when)
    IN  \* nothing assigns to _liquidity_strategies
        [State EXCEPT
            !.nbars = when,
            !.lastBars = RecordLastBar(lastBars, bar),
            !.reindexCounter = reindexCounter + 1,
            !.openItems = OpenItemsAfter(reindexCounter + 1, st),
            !.orders = st.orders,
            !.balances = st.bal,
            !.barLog = [pair |-> bar.pair, when |-> when, entries |-> st.log],
            !.result = [op |-> "bar",
                        status |-> IF st.error = "none" THEN "ok" ELSE st.error,
                        id |-> 0],
            !.barEventSource =
                IF st.error = "none"
                THEN Push(barEventSource, ForwardTargets(bar.pair),
                          ForwardedEvent(bar, when))
                ELSE barEventSource,
            !.factoryCalls = IF found = NoStrategy THEN factoryCalls + 1 ELSE factoryCalls,
            !.liquidityUsed = [liquidityUsed EXCEPT ![bar.pair] = liquidity_strategy]]

\* the feed delivers no more than MaxBars bars
OnBarEventEnabled == nbars < MaxBars

\* a bar event is dispatched to _on_bar_event
OnBarEvent(bar) == OnBarEventEnabled /\ Becomes(OnBarEventStep(bar))

\* ----------------------------------------------------------------- loans
LoanSymbols == {"BTC"}
LoanAmounts == {0, 2}
\* what calculate_collateral of the strategy's loans asks for
Collaterals == { [s \in Symbols |-> IF s = "USD" THEN 10 ELSE 0],
                 [s \in Symbols |-> IF s = "USD" THEN 45 ELSE 0] }
\* what calculate_interest of the strategy's loans returns, not yet truncated
Interests == { EmptyMap, ("BTC" :> <<6, ShareDen>>) }

\* create_loan that accepts any amount
LoanAmountInvalid_Never(amount) == FALSE

\* create_loan: the amount is checked before the lending strategy is called
LoanAmountInvalid(amount) == amount <= 0

\* create_loan: the values it leaves
CreateLoanStep(symbol, amount, collateral) ==
    LET id == Len(loans) + 1
        loan == [id |-> id, borrowed_symbol |-> symbol, borrowed_amount |-> amount,
                 is_open |-> TRUE, collateral |-> collateral]
        acc == AcceptLoan(balances, loan)
    IN  IF LoanAmountInvalid(amount)
        THEN [State EXCEPT
                !.result = [op |-> "create_loan", status |-> "Invalid amount", id |-> 0]]
        ELSE IF lendingStrategy = "NoLoans"
        THEN [State EXCEPT
                !.result = [op |-> "create_loan", status |-> "Lending is not supported",
                            id |-> 0]]
        ELSE IF ~acc.ok
        THEN [State EXCEPT
                !.result = [op |-> "create_loan", status |-> "NotEnoughBalance", id |-> 0]]
        ELSE [State EXCEPT
                !.balances = acc.bal,
                !.loans = Append(loans, loan),
                !.result = [op |-> "create_loan", status |-> "ok", id |-> id]]

\* the strategy asks the exchange for no more than MaxLoans loans
CreateLoanEnabled == Len(loans) < MaxLoans

\* create_loan
CreateLoan(symbol, amount, collateral) ==
    CreateLoanEnabled /\ Becomes(CreateLoanStep(symbol, amount, collateral))

\* Loan.close that leaves the loan open
CloseLoan_Noop(loan) == loan

\* Loan.close
CloseLoan(loan) == [loan EXCEPT !.is_open = FALSE]

\* repay_loan that repays whatever the state of the loan
LoanNotOpen_Never(loan) == FALSE

\* repay_loan: if not loan.is_open
LoanNotOpen(loan) == ~loan.is_open

\* repay_loan: the values it leaves
RepayLoanStep(id, raw_interest) ==
    LET loan == loans[id]
        interest == [s \in DOMAIN raw_interest |->
                        TruncateDecimal(raw_interest[s][1], raw_interest[s][2])]
        rep == RepayLoan(balances, loan, interest)
        done ==
            IF id \notin DOMAIN loans
            THEN [State EXCEPT
                    !.result = [op |-> "repay_loan", status |-> "Loan not found",
                                id |-> id]]
            ELSE IF LoanNotOpen(loan)
            THEN [State EXCEPT
                    !.result = [op |-> "repay_loan", status |-> "Loan is not open",
                                id |-> id]]
            ELSE IF RaiseIfShort(balances, (loan.borrowed_symbol :> loan.borrowed_amount))
            THEN [State EXCEPT
                    !.result = [op |-> "repay_loan", status |-> "Not enough balance",
                                id |-> id]]
            ELSE IF ~rep.ok
            THEN [State EXCEPT
                    !.result = [op |-> "repay_loan", status |-> "NotEnoughBalance",
                                id |-> id]]
            ELSE [State EXCEPT
                    !.balances = rep.bal,
                    !.loans = [loans EXCEPT ![id] = CloseLoan(loan)],
                    !.result = [op |-> "repay_loan", status |-> "ok", id |-> id]]
    IN  [done EXCEPT
            !.refusedRepayments =
                IF done.result.status \in {"Not enough balance", "NotEnoughBalance"}
                THEN refusedRepayments \cup {<<"Exchange", id>>}
                ELSE refusedRepayments]

\* repay_loan
RepayLoanOp(id, raw_interest) == Becomes(RepayLoanStep(id, raw_interest))

\* the orders of the exchange and its bars; the loans are stepped together
\* with orders and bars in NextLoans
Next ==
    \/ \E req \in Requests : CreateOrder(req)
    \/ \E id \in 1..MaxOrders : CancelOrder(id)
    \/ \E bar \in Bars : OnBarEvent(bar)

Spec == Init /\ [][Next]_vars

\* P holds of the values left by every call and every bar that Next allows now
EveryStep(P(_)) ==
    /\ \A req \in Requests : CreateOrderEnabled => P(CreateOrderStep(req))
    /\ \A id \in 1..MaxOrders : P(CancelOrderStep(id))
    /\ \A bar \in Bars : OnBarEventEnabled => P(OnBarEventStep(bar))

\* ----------------------------------------------------------- LoanManager
\* AccountBalances.update: the balance of a symbol (available plus hold)
\* changes by balance_updates, its hold by hold_updates and its borrowed
\* balance by borrowed_updates; NotEnoughBalance and no change if an available
\* balance, a hold or a borrowed balance would become negative.
Update(bal, balance_updates, borrowed_updates, hold_updates) ==
    LET a1 == [s \in Symbols |->
                bal.available[s] + Get(balance_updates, s) - Get(hold_updates, s)]
        h1 == [s \in Symbols |-> bal.hold[s] + Get(hold_updates, s)]
        b1 == [s \in Symbols |-> bal.borrowed[s] + Get(borrowed_updates, s)]
    IN  IF \E s \in Symbols : a1[s] < 0 \/ h1[s] < 0 \/ b1[s] < 0
        THEN [ok |-> FALSE, bal |-> bal]
        ELSE [ok |-> TRUE,
              bal |-> [bal EXCEPT !.available = a1, !.hold = h1, !.borrowed = b1]]

\* the amounts with their signs kept
Negated_Same(m) == m

\* {symbol: -amount for symbol, amount in m.items()}
Negated(m) == [s \in DOMAIN m |-> -m[s]]

\* create_loan that does not count the amount as borrowed
CreateLoanUpdates_NotBorrowed(loan, required_collateral) ==
    [balance_updates |-> (loan.borrowed_symbol :> loan.borrowed_amount),
     borrowed_updates |-> EmptyMap,
     hold_updates |-> required_collateral]

\* create_loan that puts no collateral on hold
CreateLoanUpdates_NoHold(loan, required_collateral) ==
    [balance_updates |-> (loan.borrowed_symbol :> loan.borrowed_amount),
     borrowed_updates |-> (loan.borrowed_symbol :> loan.borrowed_amount),
     hold_updates |-> EmptyMap]

\* create_loan: the arguments of account_balances.update
CreateLoanUpdates(loan, required_collateral) ==
    [balance_updates |-> (loan.borrowed_symbol :> loan.borrowed_amount),
     borrowed_updates |-> (loan.borrowed_symbol :> loan.borrowed_amount),
     hold_updates |-> required_collateral]

\* LoanManager.create_loan: the values it leaves
ManagerCreateLoanStep(symbol, amount, required_collateral) ==
    LET id == Len(managerLoans) + 1
        loan == [id |-> id, borrowed_symbol |-> symbol, borrowed_amount |-> amount,
                 is_open |-> TRUE, collateral |-> required_collateral]
        u == CreateLoanUpdates(loan, required_collateral)
        upd == Update(balances, u.balance_updates, u.borrowed_updates, u.hold_updates)
    IN  IF amount <= 0
        THEN [State EXCEPT
                !.result = [op |-> "create_loan", status |-> "Invalid amount", id |-> 0]]
        ELSE IF lendingStrategy = "NoLoans"
        THEN [State EXCEPT
                !.result = [op |-> "create_loan", status |-> "Lending is not supported",
                            id |-> 0]]
        ELSE IF ~upd.ok
        THEN [State EXCEPT
                !.result = [op |-> "create_loan", status |-> "NotEnoughBalance", id |-> 0]]
        ELSE [State EXCEPT
                !.balances = upd.bal,
                !.managerLoans = Append(managerLoans, loan),
                !.collateralByLoan = (id :> required_collateral) @@ collateralByLoan,
                !.result = [op |-> "create_loan", status |-> "ok", id |-> id]]

\* the strategy asks the loan manager for no more than MaxLoans loans
ManagerCreateLoanEnabled == Len(managerLoans) < MaxLoans

\* LoanManager.create_loan
ManagerCreateLoan(symbol, amount, required_collateral) ==
    /\ ManagerCreateLoanEnabled
    /\ Becomes(ManagerCreateLoanStep(symbol, amount, required_collateral))

\* interest[symbol] = truncate_decimal(amount, precision of the symbol)
TruncatedInterest(raw_interest) ==
    [s \in DOMAIN raw_interest |-> TruncateDecimal(raw_interest[s][1], raw_interest[s][2])]

\* repay_loan that does not charge the interest
RepayLoanUpdates_NoInterest(loan, interest, collateral) ==
    [balance_updates |-> (loan.borrowed_symbol :> -loan.borrowed_amount),
     borrowed_updates |-> (loan.borrowed_symbol :> -loan.borrowed_amount),
     hold_updates |-> Negated(collateral)]

\* repay_loan: the arguments of account_balances.update
RepayLoanUpdates(loan, interest, collateral) ==
    [balance_updates |-> AddAmounts((loan.borrowed_symbol :> -loan.borrowed_amount),
                                    Negated(interest)),
     borrowed_updates |-> (loan.borrowed_symbol :> -loan.borrowed_amount),
     hold_updates |-> Negated(collateral)]

\* repay_loan that keeps the collateral recorded for the loan
PopCollateral_Keep(collateral_by_loan, id) == collateral_by_loan

\* self._collateral_by_loan.pop(loan_id)
PopCollateral(collateral_by_loan, id) ==
    [k \in DOMAIN collateral_by_loan \ {id} |-> collateral_by_loan[k]]

\* LoanManager.repay_loan: the values it leaves
ManagerRepayLoanStep(id, raw_interest) ==
    LET loan == managerLoans[id]
        interest == TruncatedInterest(raw_interest)
        collateral == collateralByLoan[id]
        u == RepayLoanUpdates(loan, interest, collateral)
        upd == Update(balances, u.balance_updates, u.borrowed_updates, u.hold_updates)
        done ==
            IF id \notin DOMAIN managerLoans
            THEN [State EXCEPT
                    !.result = [op |-> "repay_loan", status |-> "Loan not found",
                                id |-> id]]
            ELSE IF LoanNotOpen(loan)
            THEN [State EXCEPT
                    !.result = [op |-> "repay_loan", status |-> "Loan is not open",
                                id |-> id]]
            ELSE IF ~upd.ok
            THEN [State EXCEPT
                    !.result = [op |-> "repay_loan", status |-> "NotEnoughBalance",
                                id |-> id]]
            ELSE [State EXCEPT
                    !.balances = upd.bal,
                    !.managerLoans = [managerLoans EXCEPT ![id] = CloseLoan(loan)],
                    !.collateralByLoan = PopCollateral(collateralByLoan, id),
                    !.result = [op |-> "repay_loan", status |-> "ok", id |-> id]]
    IN  [done EXCEPT
            !.refusedRepayments =
                IF done.result.status = "NotEnoughBalance"
                THEN refusedRepayments \cup {<<"LoanManager", id>>}
                ELSE refusedRepayments]

\* LoanManager.repay_loan
ManagerRepayLoan(id, raw_interest) == Becomes(ManagerRepayLoanStep(id, raw_interest))

\* the loans asked of the lending strategy, the collateral and the interest
\* its loans compute
ManagerCollaterals ==
    { [s \in Symbols |-> IF s = "USD" THEN 10 ELSE 0],
      [s \in Symbols |-> IF s = "USD" THEN 45 ELSE 0],
      [s \in Symbols |-> IF s = "BTC" THEN 1 ELSE 0] }
ManagerInterests == { EmptyMap, ("BTC" :> <<6, ShareDen>>), ("USD" :> <<5, 2>>) }
\* the orders that move the balances between the loan operations
LoanRequests ==
    { Request("Market", "SELL", BtcUsd, 4, NoPrice, NoPrice),
      Request("Limit", "BUY", BtcUsd, 12, 12, NoPrice) }
LoanBars == { Bar(BtcUsd, 10, 12, 9, 11, 10), Bar(BtcUsd, 12, 13, 11, 12, 2) }

\* the exchange and a loan manager on the same ledger
NextLoans ==
    \/ \E req \in LoanRequests : CreateOrder(req)
    \/ \E bar \in LoanBars : OnBarEvent(bar)
    \/ \E symbol \in LoanSymbols, amount \in LoanAmounts,
          collateral \in ManagerCollaterals : CreateLoan(symbol, amount, collateral)
    \/ \E id \in 1..MaxLoans, raw_interest \in ManagerInterests :
          RepayLoanOp(id, raw_interest)
    \/ \E symbol \in LoanSymbols, amount \in LoanAmounts,
          collateral \in ManagerCollaterals : ManagerCreateLoan(symbol, amount, collateral)
    \/ \E id \in 1..MaxLoans, raw_interest \in ManagerInterests :
          ManagerRepayLoan(id, raw_interest)

SpecLoans == Init /\ [][NextLoans]_vars

\* P holds of the values left by every call and every bar that NextLoans
\* allows now
EveryStepLoans(P(_)) ==
    /\ \A req \in LoanRequests : CreateOrderEnabled => P(CreateOrderStep(req))
    /\ \A bar \in LoanBars : OnBarEventEnabled => P(OnBarEventStep(bar))
    /\ \A symbol \in LoanSymbols, amount \in LoanAmounts,
          collateral \in ManagerCollaterals :
          /\ CreateLoanEnabled => P(CreateLoanStep(symbol, amount, collateral))
          /\ ManagerCreateLoanEnabled =>
                P(ManagerCreateLoanStep(symbol, amount, collateral))
    /\ \A id \in 1..MaxLoans, raw_interest \in ManagerInterests :
          /\ P(RepayLoanStep(id, raw_interest))
          /\ P(ManagerRepayLoanStep(id, raw_interest))

\* ------------------------------------------------------------ get_balance
\* Balance whose total leaves the debt out
Balance_NoDebt(available, hold, borrowed, interest) ==
    [available |-> available, hold |-> hold, borrowed |-> borrowed,
     interest |-> interest, total |-> available + hold]

\* Balance: the dataclass with the total computed by __post_init__
Balance(available, hold, borrowed, interest) ==
    [available |-> available, hold |-> hold, borrowed |-> borrowed,
     interest |-> interest, total |-> (available + hold) - (borrowed + interest)]

\* _get_balance
GetBalance(bal, symbol) ==
    Balance(GetAvailableBalance(bal, symbol), GetBalanceOnHold(bal, symbol),
            GetBorrowedBalance(bal, symbol), 0)

\* get_balance
GetBalanceOp(symbol) ==
    /\ result' = [op |-> "get_balance", status |-> "ok", id |-> 0, symbol |-> symbol,
                  balance |-> GetBalance(balances, symbol)]
    /\ UNCHANGED <<orders, openItems, reindexCounter, loans, balances, lastBars,
                   feeStrategy, lendingStrategy, bidAskSpread, nbars, barLog,
                   barEventSource, handling, createdIn, generators, managerLoans,
                   collateralByLoan, refusedRepayments, runs,
                   liquidityStrategies, factoryCalls, liquidityUsed>>

\* the exchange with orders, bars, loans and the balance reports
NextBalance ==
    \/ \E req \in LoanRequests : CreateOrder(req)
    \/ \E bar \in LoanBars : OnBarEvent(bar)
    \/ \E symbol \in LoanSymbols, amount \in LoanAmounts, collateral \in ManagerCollaterals :
          CreateLoan(symbol, amount, collateral)
    \/ \E id \in 1..MaxLoans, raw_interest \in Interests : RepayLoanOp(id, raw_interest)
    \/ \E symbol \in {"BTC", "USD"} : GetBalanceOp(symbol)

SpecBalance == Init /\ [][NextBalance]_vars

\* ------------------------------------------------- end-to-end scenarios
\* initial_balances of the scenarios: USD 1000, and the same with BTC to sell
ScenarioBalances ==
    { [s \in Symbols |-> IF s = "USD" THEN 1000 ELSE 0],
      [s \in Symbols |-> IF s = "USD" THEN 1000 ELSE IF s = "BTC" THEN 2 ELSE 0] }

\* one BTC each: limit orders, the stop limit order, a stop order
ScenarioRequests ==
    { Request("Limit", "BUY", BtcUsd, 4, 97, NoPrice),
      Request("Limit", "SELL", BtcUsd, 4, 105, NoPrice),
      Request("StopLimit", "BUY", BtcUsd, 4, 106, 105),
      Request("StopLimit", "SELL", BtcUsd, 4, 98, 99),
      Request("Stop", "BUY", BtcUsd, 4, NoPrice, 105) }

ScenarioBars ==
    { Bar(BtcUsd, 100, 110, 98, 105, 10),
      Bar(BtcUsd, 96, 100, 94, 98, 10),
      Bar(BtcUsd, 100, 104, 99, 102, 10),
      Bar(BtcUsd, 103, 107, 103, 106, 10),
      Bar(BtcUsd, 96, 100, 94, 98, 0) }

\* a new exchange with the default fee strategy (NoFee)
InitScenario ==
    /\ orders = <<>>
    /\ openItems = <<>>
    /\ loans = <<>>
    /\ \E initial_balances \in ScenarioBalances :
          balances = NewAccountBalances(initial_balances)
    /\ lastBars = [p \in Pairs |-> NoBar]
    /\ feeStrategy = "NoFee"
    /\ lendingStrategy = "NoLoans"
    /\ bidAskSpread = <<1, 2>>
    /\ reindexCounter = 0
    /\ nbars = 0
    /\ barLog = [pair |-> <<>>, when |-> 0, entries |-> <<>>]
    /\ result = [op |-> "init", status |-> "ok", id |-> 0]
    /\ barEventSource = <<>>
    /\ handling = NoEvent
    /\ createdIn = <<>>
    /\ generators = <<>>
    /\ managerLoans = <<>>
    /\ collateralByLoan = <<>>
    /\ refusedRepayments = {}
    /\ runs = <<>>
    /\ liquidityStrategies = <<>>
    /\ factoryCalls = 0
    /\ liquidityUsed = [p \in Pairs |-> 0]

NextScenario ==
    \/ \E req \in ScenarioRequests : CreateOrder(req)
    \/ \E bar \in ScenarioBars : OnBarEvent(bar)

SpecScenario == InitScenario /\ [][NextScenario]_vars

\* ------------------------------------- ExchangeObjectContainer, stepwise
\* A get_open generator suspended at its yield: the list it walks (the
\* container's _open_items as long as shared, else the list object it
\* started on, which the container has replaced since), the position of the
\* item it yielded, and new_open_items (compacting: it is not None).
MaxGenerators == 2
MaxGetOpen == 100

Remove(seq, g) == [k \in 1..(Len(seq) - 1) |-> IF k < g THEN seq[k] ELSE seq[k + 1]]

RECURSIVE NextOpen(_, _)
\* for item in self._open_items: the first position from pos on that holds
\* an open item, Len(list) + 1 if there is none
NextOpen(list, pos) ==
    IF pos > Len(list) THEN pos
    ELSE IF IsOpen(orders[list[pos]]) THEN pos
    ELSE NextOpen(list, pos + 1)

\* the generators that walk the list object the container is about to
\* replace keep that object
Detach(gens, list) ==
    [k \in DOMAIN gens |-> IF gens[k].shared
                           THEN [gens[k] EXCEPT !.shared = FALSE, !.snapshot = list]
                           ELSE gens[k]]

\* the generator runs on from position pos of its list to its next yield, or
\* to its end, where a compacting one replaces _open_items
RunGenerator(gen, others, pos) ==
    LET list == IF gen.shared THEN openItems ELSE gen.snapshot
        p == NextOpen(list, pos)
    IN  IF p <= Len(list)
        THEN /\ generators' = Append(others, [gen EXCEPT !.pos = p])
             /\ openItems' = openItems
        ELSE IF gen.compacting
        THEN /\ generators' = Detach(others, openItems)
             /\ openItems' = gen.newOpen
        ELSE /\ generators' = others
             /\ openItems' = openItems

\* _orders.add(order)
ContainerAdd(req) ==
    LET id == Len(orders) + 1
        order == CreateOrderFromRequest(req, id)
    IN  /\ Len(orders) < MaxOrders
        /\ orders' = Append(orders, order)
        /\ openItems' = IF IsOpen(order) THEN Append(openItems, id) ELSE openItems
        /\ createdIn' = Append(createdIn, 0)
        /\ UNCHANGED <<reindexCounter, loans, balances, lastBars, feeStrategy,
                       lendingStrategy, bidAskSpread, nbars, barLog, result,
                       barEventSource, handling, generators,
                   managerLoans, collateralByLoan,
                   refusedRepayments, runs,
                   liquidityStrategies, factoryCalls, liquidityUsed>>

\* an item of the container is closed
ItemClose(id) ==
    /\ id \in DOMAIN orders
    /\ IsOpen(orders[id])
    /\ orders' = [orders EXCEPT ![id] = Cancel(@)]
    /\ UNCHANGED <<openItems, reindexCounter, loans, balances, lastBars, feeStrategy,
                   lendingStrategy, bidAskSpread, nbars, barLog, result,
                   barEventSource, handling, createdIn, generators,
                   managerLoans, collateralByLoan,
                   refusedRepayments, runs,
                   liquidityStrategies, factoryCalls, liquidityUsed>>

\* the first next() of a get_open generator: count the call, decide on the
\* compaction, walk to the first open item
GetOpenStart ==
    /\ Len(generators) < MaxGenerators
    /\ reindexCounter < MaxGetOpen
    /\ reindexCounter' = reindexCounter + 1
    /\ RunGenerator([shared |-> TRUE, snapshot |-> <<>>, pos |-> 0,
                     compacting |-> (reindexCounter + 1) % ReindexEvery = 0,
                     newOpen |-> <<>>],
                    generators, 1)
    /\ UNCHANGED <<orders, loans, balances, lastBars, feeStrategy, lendingStrategy,
                   bidAskSpread, nbars, barLog, result, barEventSource, handling,
                   createdIn,
                   managerLoans, collateralByLoan,
                   refusedRepayments, runs,
                   liquidityStrategies, factoryCalls, liquidityUsed>>

\* a later next(): after the yield the item is collected if the generator is
\* compacting and the item is still open; then walk on
GetOpenNext(g) ==
    /\ g \in DOMAIN generators
    /\ LET gen == generators[g]
           list == IF gen.shared THEN openItems ELSE gen.snapshot
           item == list[gen.pos]
           collected == IF gen.compacting /\ IsOpen(orders[item])
                        THEN Append(gen.newOpen, item) ELSE gen.newOpen
       IN  RunGenerator([gen EXCEPT !.newOpen = collected], Remove(generators, g),
                        gen.pos + 1)
    /\ UNCHANGED <<orders, reindexCounter, loans, balances, lastBars, feeStrategy,
                   lendingStrategy, bidAskSpread, nbars, barLog, result,
                   barEventSource, handling, createdIn,
                   managerLoans, collateralByLoan,
                   refusedRepayments, runs,
                   liquidityStrategies, factoryCalls, liquidityUsed>>

\* the iteration is abandoned: the generator is closed at its yield
GetOpenAbandon(g) ==
    /\ g \in DOMAIN generators
    /\ generators' = Remove(generators, g)
    /\ UNCHANGED <<orders, openItems, reindexCounter, loans, balances, lastBars,
                   feeStrategy, lendingStrategy, bidAskSpread, nbars, barLog, result,
                   barEventSource, handling, createdIn,
                   managerLoans, collateralByLoan,
                   refusedRepayments, runs,
                   liquidityStrategies, factoryCalls, liquidityUsed>>

\* the items added are orders; the container only looks at id and is_open
ContainerRequests == { Request("Limit", "BUY", BtcUsd, 4, 9, NoPrice) }

\* the container right before a get_open that compacts
InitContainer == Init /\ reindexCounter = ReindexEvery - 2

NextContainer ==
    \/ \E req \in ContainerRequests : ContainerAdd(req)
    \/ \E id \in 1..MaxOrders : ItemClose(id)
    \/ GetOpenStart
    \/ \E g \in 1..MaxGenerators : GetOpenNext(g)
    \/ \E g \in 1..MaxGenerators : GetOpenAbandon(g)

SpecContainer == InitContainer /\ [][NextContainer]_vars

\* ------------------------------------------------------------ bid and ask
\* get_bid_ask returns (None, None)
NoBidAsk == [none |-> TRUE]

\* get_bid_ask: from the close of the last bar and the spread, a percentage;
\* `if last_price:` is false for None and for a price of zero
GetBidAsk(last_bars, pair, spread) ==
    LET last_price == GetLastPrice(last_bars, pair)
        half_spread == TruncateDecimal(last_price * spread[1], spread[2] * 100 * 2)
    IN  IF last_price # 0
        THEN [bid |-> last_price - half_spread, ask |-> last_price + half_spread]
        ELSE NoBidAsk

\* get_bid_ask(pair)
GetBidAskOp(pair) ==
    /\ result' = [op |-> "get_bid_ask", status |-> "ok", id |-> 0, pair |-> pair,
                  bid_ask |-> GetBidAsk(lastBars, pair, bidAskSpread)]
    /\ UNCHANGED <<orders, openItems, reindexCounter, loans, balances, lastBars,
                   feeStrategy, lendingStrategy, bidAskSpread, nbars, barLog,
                   barEventSource, handling, createdIn, generators,
                   managerLoans, collateralByLoan,
                   refusedRepayments, runs,
                   liquidityStrategies, factoryCalls, liquidityUsed>>

\* bars of a quiet market: one price, no volume; closes around the prices at
\* which the half spread of 0.5% gains a unit, and a close of zero
QuoteCloses == {0, 3, 399, 400, 799, 1001}
QuoteBars == {Bar(pair, c, c, c, c, 0) : pair \in Pairs, c \in QuoteCloses}

NextQuote ==
    \/ \E bar \in QuoteBars : OnBarEvent(bar)
    \/ \E pair \in Pairs : GetBidAskOp(pair)

SpecQuote == Init /\ [][NextQuote]_vars

\* ------------------------------------------------- bar event subscribers
\* subscribe_to_bar_events: get or create the event source of the pair
SubscribeToBarEvents(pair) ==
    /\ barEventSource' = IF pair \in DOMAIN barEventSource THEN barEventSource
                         ELSE (pair :> <<>>) @@ barEventSource
    /\ UNCHANGED <<orders, openItems, reindexCounter, loans, balances, lastBars,
                   feeStrategy, lendingStrategy, bidAskSpread, nbars, barLog, result, handling,
                   createdIn, generators,
                   managerLoans, collateralByLoan,
                   refusedRepayments, runs,
                   liquidityStrategies, factoryCalls, liquidityUsed>>

\* the dispatcher pops the next event of the source and calls the handler
\* subscribed to it; handlers run one at a time
DispatchBarEvent(pair) ==
    /\ handling = NoEvent
    /\ pair \in DOMAIN barEventSource
    /\ barEventSource[pair] # <<>>
    /\ handling' = Head(barEventSource[pair])
    /\ barEventSource' = [barEventSource EXCEPT ![pair] = Tail(@)]
    /\ UNCHANGED <<orders, openItems, reindexCounter, loans, balances, lastBars,
                   feeStrategy, lendingStrategy, bidAskSpread, nbars, barLog, result, createdIn, generators,
                   managerLoans, collateralByLoan,
                   refusedRepayments, runs,
                   liquidityStrategies, factoryCalls, liquidityUsed>>

\* the handler returns
HandlerReturns ==
    /\ handling # NoEvent
    /\ handling' = NoEvent
    /\ UNCHANGED <<orders, openItems, reindexCounter, loans, balances, lastBars,
                   feeStrategy, lendingStrategy, bidAskSpread, nbars, barLog, result, barEventSource,
                   createdIn, generators,
                   managerLoans, collateralByLoan,
                   refusedRepayments, runs,
                   liquidityStrategies, factoryCalls, liquidityUsed>>

\* the requests of the subscribed strategy
RequestsFwd ==
    { Request("Market", "BUY", BtcUsd, 12, NoPrice, NoPrice),
      Request("Market", "SELL", BtcUsd, 4, NoPrice, NoPrice),
      Request("Limit", "BUY", BtcUsd, 4, 9, NoPrice),
      Request("Limit", "BUY", EthUsd, 4, 9, NoPrice) }

NextFwd ==
    \/ \E req \in RequestsFwd : CreateOrder(req)
    \/ \E bar \in Bars : OnBarEvent(bar)
    \/ \E pair \in Pairs : SubscribeToBarEvents(pair)
    \/ \E pair \in Pairs : DispatchBarEvent(pair)
    \/ HandlerReturns

SpecFwd == Init /\ [][NextFwd]_vars


\* ================================================================ claims
OrderIds == DOMAIN orders
LoanIds == DOMAIN loans

RECURSIVE SumOver(_, _)
\* the sum of f[x] over the finite set S
SumOver(f, S) ==
    IF S = {} THEN 0
    ELSE LET x == CHOOSE y \in S : TRUE IN f[x] + SumOver(f, S \ {x})

\* base amount of the fills recorded for the order
FilledByFills(order) ==
    SumOver([k \in DOMAIN order.fills |->
                Abs(order.fills[k].balance_updates[BaseSymbol(order.pair)])],
            DOMAIN order.fills)

\* collateral of the open loans on hold in the symbol
CollateralOnHold(s) ==
    SumOver([l \in LoanIds |-> IF loans[l].is_open THEN loans[l].collateral[s] ELSE 0],
            LoanIds)

\* collateral of the open loans of the loan manager on hold in the symbol
ManagerCollateralOnHold(s) ==
    SumOver([l \in DOMAIN managerLoans |->
                IF managerLoans[l].is_open THEN managerLoans[l].collateral[s] ELSE 0],
            DOMAIN managerLoans)

\* hold of the accepted orders in the symbol, on the ledger bal
HoldOfOrders(bal, s) ==
    SumOver([o \in DOMAIN bal.holdsByOrder |-> bal.holdsByOrder[o][s]],
            DOMAIN bal.holdsByOrder)

\* hold of the accepted orders in the symbol
OrdersOnHold(s) == HoldOfOrders(balances, s)

\* C1: after every public operation, whether it succeeded or failed, the
\* available balance of every symbol is not negative: in every state that
\* orders, bars and loans reach, and after a cancel_order called there.
C1_AvailableNonNegative ==
    /\ \A s \in Symbols : GetAvailableBalance(balances, s) >= 0
    /\ \A id \in 1..MaxOrders, s \in Symbols :
          GetAvailableBalance(CancelOrderStep(id).balances, s) >= 0

\* a sell order was accepted that put the whole available BTC on hold
C1_Witness ==
    /\ result.op = "create_order" /\ result.status = "ok"
    /\ GetAvailableBalance(balances, "BTC") = 0
    /\ GetBalanceOnHoldForOrder(balances, result.id, "BTC") > 0

\* C2: after every public operation the hold reported for a symbol is the
\* sum of the holds of all orders plus the collateral of the open loans (those
\* of the exchange and those of a loan manager on the same ledger), and no
\* order's hold is negative: in every state that orders, bars and loans
\* reach, and after a cancel_order called there, which leaves the loans alone.
C2_HoldIsSumOfHolds ==
    /\ \A s \in Symbols :
          GetBalanceOnHold(balances, s)
              = OrdersOnHold(s) + CollateralOnHold(s) + ManagerCollateralOnHold(s)
    /\ \A o \in OrderIds, s \in Symbols : GetBalanceOnHoldForOrder(balances, o, s) >= 0
    /\ \A id \in 1..MaxOrders :
          LET n == CancelOrderStep(id)
          IN  /\ n.loans = loans /\ n.managerLoans = managerLoans
              /\ \A s \in Symbols :
                    /\ GetBalanceOnHold(n.balances, s)
                          = HoldOfOrders(n.balances, s) + CollateralOnHold(s)
                            + ManagerCollateralOnHold(s)
                    /\ \A o \in OrderIds :
                          GetBalanceOnHoldForOrder(n.balances, o, s) >= 0

\* an order and an open loan hold the same symbol
C2_Witness ==
    \E s \in Symbols : OrdersOnHold(s) > 0 /\ CollateralOnHold(s) > 0

\* C3: an order is never filled beyond its original amount.
C3_AmountFilledInRange ==
    \A o \in OrderIds :
        /\ 0 <= orders[o].amount_filled
        /\ orders[o].amount_filled <= orders[o].amount
        /\ FilledByFills(orders[o]) <= orders[o].amount

\* a bar has just filled part of an order, another order is filled entirely
C3_Witness ==
    /\ result.op = "bar"
    /\ \E o \in OrderIds :
          orders[o].amount_filled > 0 /\ orders[o].amount_filled < orders[o].amount
    /\ \E o \in OrderIds : orders[o].amount_filled = orders[o].amount

\* C4: a COMPLETED order is filled for its original amount, and so are the
\* fills recorded for it.
C4_CompletedIsFilled ==
    \A o \in OrderIds :
        orders[o].state = "COMPLETED" =>
            /\ orders[o].amount_filled = orders[o].amount
            /\ FilledByFills(orders[o]) = orders[o].amount

\* an order completed by its second fill
C4_Witness ==
    \E o \in OrderIds : orders[o].state = "COMPLETED" /\ Len(orders[o].fills) = 2

\* C7: an order that is not OPEN holds nothing in any symbol.
C7_ClosedOrderHoldsNothing ==
    \A o \in OrderIds :
        ~IsOpen(orders[o]) =>
            \A s \in Symbols : GetBalanceOnHoldForOrder(balances, o, s) = 0

\* each way out of OPEN with a hold to release: a Market order canceled by a
\* bar, an order completed by a fill, an order canceled by cancel_order
C7_HadHold(o) == \E s \in Symbols : balances.acceptedHolds[o][s] > 0
C7_WitnessMarket ==
    /\ result.op = "bar"
    /\ \E k \in DOMAIN barLog.entries :
          LET o == barLog.entries[k].id
          IN  /\ orders[o].type = "Market" /\ orders[o].state = "CANCELED"
              /\ C7_HadHold(o)
C7_Witness ==
    /\ C7_WitnessMarket
    /\ \E o \in OrderIds : orders[o].state = "COMPLETED" /\ C7_HadHold(o)


\* the step that leaves n is a successful create_order / cancel_order(o) / a
\* bar
IsCreateStep(n) == Len(n.orders) = Len(orders) + 1
IsCancelStep(n, o) ==
    /\ n.result.op = "cancel_order" /\ n.result.id = o
    /\ IsOpen(orders[o]) /\ ~IsOpen(n.orders[o])
IsBarStep(n) == n.nbars = nbars + 1

\* the ledger moved `moved` from available to hold (sign = 1) or back (-1)
LedgerMoved(n, moved, sign) ==
    /\ \A s \in Symbols :
          /\ n.balances.available[s] = balances.available[s] - sign * moved[s]
          /\ n.balances.hold[s] = balances.hold[s] + sign * moved[s]
    /\ n.balances.borrowed = balances.borrowed

\* C5: create_order moves the order's hold from available to hold and
\* nothing else; cancel_order of an order that has no fill moves exactly
\* that hold back: the two together leave available, hold and borrowed of
\* every symbol as they were right before create_order.
C5_CreateCancelRoundTrip ==
    EveryStep(LAMBDA n :
        /\ IsCreateStep(n) =>
              /\ Len(n.orders) \in DOMAIN n.balances.acceptedHolds
              /\ LedgerMoved(n, n.balances.acceptedHolds[Len(n.orders)], 1)
        /\ \A o \in OrderIds :
              IsCancelStep(n, o) /\ orders[o].fills = <<>> =>
                  LedgerMoved(n, balances.acceptedHolds[o], -1))

\* an order with a hold went through a bar without a fill, was canceled, and
\* the ledger is the initial one again
C5_Witness ==
    /\ result.op = "cancel_order" /\ result.status = "ok"
    /\ orders[result.id].state = "CANCELED" /\ orders[result.id].fills = <<>>
    /\ C7_HadHold(result.id)
    /\ \E k \in DOMAIN barLog.entries : barLog.entries[k].id = result.id
    /\ balances.available = InitialBalances
    /\ balances.hold = ZeroMap /\ balances.borrowed = ZeroMap

\* C6: cancel_order on an order that is not OPEN fails and changes nothing.
C6_CancelClosedChangesNothing ==
    EveryStep(LAMBDA n :
        \A o \in OrderIds :
            n.result.op = "cancel_order" /\ n.result.id = o /\ ~IsOpen(orders[o]) =>
                /\ n.result.status = "Order not open"
                /\ n.orders = orders /\ n.openItems = openItems
                /\ n.reindexCounter = reindexCounter /\ n.balances = balances
                /\ n.loans = loans /\ n.lastBars = lastBars /\ n.barLog = barLog)

\* cancel_order has just been refused for a COMPLETED order
C6_Witness ==
    /\ result.op = "cancel_order" /\ result.status = "Order not open"
    /\ orders[result.id].state = "COMPLETED"

\* C8: on a bar of its pair, an open Market order that receives no fill is
\* CANCELED by the end of the bar; an open Limit, Stop or StopLimit order that
\* receives no fill is still OPEN.
C8_UnfilledMarketCanceled ==
    EveryStep(LAMBDA n :
        IsBarStep(n) =>
            \A o \in OrderIds :
                /\ IsOpen(orders[o]) /\ orders[o].pair = n.barLog.pair
                /\ n.orders[o].fills = orders[o].fills
                => IF orders[o].type = "Market"
                   THEN n.orders[o].state = "CANCELED"
                   ELSE n.orders[o].state = "OPEN")

\* the last bar left a Market order canceled and another order open, neither
\* of them filled
C8_Witness ==
    /\ result.op = "bar"
    /\ \E j, k \in DOMAIN barLog.entries :
          /\ barLog.entries[j].filled = 0 /\ barLog.entries[k].filled = 0
          /\ orders[barLog.entries[j].id].type = "Market"
          /\ orders[barLog.entries[j].id].state = "CANCELED"
          /\ orders[barLog.entries[k].id].type # "Market"
          /\ orders[barLog.entries[k].id].state = "OPEN"

\* C9: a Market order that a bar has processed is no longer OPEN, also when
\* the bar's liquidity budget filled only a part of it.
C9_MarketClosedAfterBar ==
    \A k \in DOMAIN barLog.entries :
        orders[barLog.entries[k].id].type = "Market" =>
            ~IsOpen(orders[barLog.entries[k].id])

\* the request an order was created from
RequestOf(order) ==
    Request(order.type, order.operation, order.pair, order.amount * ShareDen,
            order.limit_price, order.stop_price)

\* C10: create_order registers an order only if no estimated required balance
\* exceeds the available balance; when it fails no order is registered, by id
\* or in the open index, and the ledger is unchanged.
C10_CreateShortChangesNothing ==
    EveryStep(LAMBDA n :
        /\ IsCreateStep(n) =>
              LET required == EstimateRequiredBalances(RequestOf(n.orders[Len(n.orders)]),
                                                       lastBars, feeStrategy)
              IN  /\ n.result.status = "ok"
                  /\ \A s \in DOMAIN required : required[s] <= balances.available[s]
        /\ n.result.op = "create_order" /\ n.result.status # "ok" =>
              /\ n.orders = orders /\ n.openItems = openItems
              /\ n.balances = balances)

\* create_order has just been refused for lack of balance while another order
\* holds a balance
C10_Witness ==
    /\ result.op = "create_order" /\ result.status = "Not enough balance"
    /\ \E o \in OrderIds, s \in Symbols : GetBalanceOnHoldForOrder(balances, o, s) > 0

\* C11: a create_order whose request does not validate raises before any
\* state change: no order is registered, by id or in the open index, and no
\* balance or hold changes.
C11_InvalidRequestChangesNothing ==
    \A req \in Requests :
        ~ValidRequest(req) /\ CreateOrderEnabled =>
            LET n == CreateOrderStep(req)
            IN  /\ n.result.status = "Invalid request"
                /\ n.orders = orders /\ n.openItems = openItems
                /\ n.reindexCounter = reindexCounter /\ n.balances = balances
                /\ n.loans = loans /\ n.lastBars = lastBars

\* a request has just been refused as invalid while an order holds a balance
C11_Witness ==
    /\ result.op = "create_order" /\ result.status = "Invalid request"
    /\ \E o \in OrderIds, s \in Symbols : GetBalanceOnHoldForOrder(balances, o, s) > 0

\* C12: a successful create_order registers a new OPEN order with nothing
\* filled, listed in the open index, and moves exactly the estimated required
\* balances from available to the hold of that order.
C12_CreateHoldsRequired ==
    EveryStep(LAMBDA n :
        IsCreateStep(n) =>
            LET id == Len(n.orders)
                order == n.orders[id]
                required == EstimateRequiredBalances(RequestOf(order), lastBars, feeStrategy)
                held == [s \in Symbols |-> Get(required, s)]
            IN  /\ order.state = "OPEN" /\ order.amount_filled = 0 /\ order.fills = <<>>
                /\ order.id = id /\ n.openItems = Append(openItems, id)
                /\ LedgerMoved(n, held, 1)
                /\ \A s \in Symbols :
                      /\ GetBalanceOnHoldForOrder(n.balances, id, s) = held[s]
                      /\ GetBalanceOnHoldForOrder(balances, id, s) = 0
                /\ \A o \in OrderIds, s \in Symbols :
                      GetBalanceOnHoldForOrder(n.balances, o, s)
                          = GetBalanceOnHoldForOrder(balances, o, s))

\* a Limit BUY of 1 at 9 was accepted on the exchange without fees with USD 40
\* available: 31 are available and 9 on hold
C12_Witness ==
    /\ result.op = "create_order" /\ result.status = "ok" /\ feeStrategy = "NoFee"
    /\ orders[result.id].type = "Limit" /\ orders[result.id].limit_price = 9
    /\ GetAvailableBalance(balances, "USD") = 31
    /\ GetBalanceOnHoldForOrder(balances, result.id, "USD") = 9
    /\ GetBalanceOnHold(balances, "USD") = 9

\* the matching loop of a bar delivered now, right before it reaches the k-th
\* item of the open index
LoopStateBefore(bar, k) ==
    ProcessOpenItems([orders |-> orders, bal |-> balances, liq |-> LiquidityOnBar(bar),
                      error |-> "none", log |-> <<>>, newOpen |-> <<>>],
                     SubSeq(openItems, 1, k - 1), 1, bar, nbars + 1, feeStrategy)

\* what the fill of the order on the bar would move, fees included
FillDebit(st, id, bar) ==
    LET order == st.orders[id]
        updates == RoundBalanceUpdates(order.pair, GetBalanceUpdates(order, bar, st.liq))
        fees == FeeUnits(RoundFees(order.pair, CalculateFees(feeStrategy, order, updates)))
    IN  AddAmounts(updates, fees)

\* the order would fill on the bar, and the fill debits more of some symbol
\* than is available plus what the order holds
FillIsShort(st, id, bar) ==
    LET order == st.orders[id]
        updates == RoundBalanceUpdates(order.pair, GetBalanceUpdates(order, bar, st.liq))
    IN  /\ BaseSymbol(order.pair) \in DOMAIN updates
        /\ QuoteSymbol(order.pair) \in DOMAIN updates
        /\ \E s \in Symbols :
              -Get(FillDebit(st, id, bar), s)
                  > st.bal.available[s] + GetBalanceOnHoldForOrder(st.bal, id, s)

\* C13: in the matching loop, an order whose fill would debit more than the
\* available balance plus its own hold is not filled on that bar and no error
\* ends the loop: no liquidity is taken, no fill is recorded, and the ledger
\* is unchanged, except that a Market order is canceled and its hold released.
C13_ShortFillIsSkipped ==
    \A bar \in Bars, k \in DOMAIN openItems :
        LET id == openItems[k]
            st == LoopStateBefore(bar, k)
            st2 == ProcessOrder(st, id, bar, nbars + 1, feeStrategy)
        IN  ( /\ st.error = "none"
              /\ IsOpen(st.orders[id]) /\ st.orders[id].pair = bar.pair
              /\ FillIsShort(st, id, bar) )
            => /\ st2.error = "none"
               /\ st2.liq = st.liq
               /\ st2.orders[id].fills = st.orders[id].fills
               /\ st2.orders[id].amount_filled = st.orders[id].amount_filled
               /\ \A o \in DOMAIN st.orders : o # id => st2.orders[o] = st.orders[o]
               /\ IF st.orders[id].type = "Market"
                  THEN /\ st2.orders[id].state = "CANCELED"
                       /\ \A s \in Symbols :
                             /\ st2.bal.available[s] =
                                   st.bal.available[s] + GetBalanceOnHoldForOrder(st.bal, id, s)
                             /\ st2.bal.hold[s] =
                                   st.bal.hold[s] - GetBalanceOnHoldForOrder(st.bal, id, s)
                             /\ st2.bal.borrowed[s] = st.bal.borrowed[s]
                  ELSE /\ st2.orders[id].state = "OPEN"
                       /\ st2.bal = st.bal

\* the last bar had liquidity for a whole unit when it reached a Market order
\* and left it canceled and unfilled without an error: its fill was short
C13_Witness ==
    /\ result.op = "bar" /\ result.status = "ok"
    /\ \E k \in DOMAIN barLog.entries :
          /\ barLog.entries[k].filled = 0
          /\ barLog.entries[k].before >= ShareDen
          /\ orders[barLog.entries[k].id].type = "Market"
          /\ orders[barLog.entries[k].id].state = "CANCELED"

\* the ids of the open orders of the pair, in the order of their creation
OpenIdsOfPair(pair) ==
    SelectSeq([i \in DOMAIN orders |-> i],
              LAMBDA i : IsOpen(orders[i]) /\ orders[i].pair = pair)

\* C14: a bar processes the open orders of its pair in the order of their
\* creation, and each of them is offered the liquidity that the orders
\* processed before it on that bar have left.
C14_CreationOrderSharedLiquidity ==
    EveryStep(LAMBDA n :
        IsBarStep(n) /\ n.result.status = "ok" =>
            LET log == n.barLog.entries
                bar == n.lastBars[n.barLog.pair]
            IN  /\ [k \in DOMAIN log |-> log[k].id] = OpenIdsOfPair(n.barLog.pair)
                /\ \A k \in DOMAIN log :
                      /\ log[k].before =
                            IF k = 1 THEN AvailableLiquidity(LiquidityOnBar(bar))
                            ELSE log[k - 1].after
                      /\ log[k].after = log[k].before - log[k].filled * ShareDen
                      /\ log[k].filled * ShareDen <= log[k].before
                      /\ log[k].filled =
                            n.orders[log[k].id].amount_filled
                                - orders[log[k].id].amount_filled)

\* the last bar filled two orders, the second from what the first had left
C14_Witness ==
    /\ result.op = "bar" /\ Len(barLog.entries) = 2
    /\ barLog.entries[1].filled > 0 /\ barLog.entries[2].filled > 0
    /\ barLog.entries[1].id < barLog.entries[2].id

\* C17: within a bar the available liquidity never increases, and the base
\* amounts filled on the bar add up to no more than the budget of the bar.
C17_LiquidityNeverIncreases ==
    barLog.when > 0 =>
        LET log == barLog.entries
            budget == AvailableLiquidity(LiquidityOnBar(lastBars[barLog.pair]))
        IN  /\ \A k \in DOMAIN log :
                  /\ log[k].after <= log[k].before
                  /\ log[k].before <= budget
                  /\ \A j \in DOMAIN log : j < k => log[k].before <= log[j].after
                  /\ log[k].after >= 0
            /\ SumOver([k \in DOMAIN log |-> log[k].filled * ShareDen], DOMAIN log) <= budget

\* the first order of the last bar left less than a unit of liquidity, and
\* the second order got nothing
C17_Witness ==
    /\ result.op = "bar" /\ Len(barLog.entries) = 2
    /\ barLog.entries[1].filled > 0
    /\ barLog.entries[2].before < ShareDen /\ barLog.entries[2].before > 0
    /\ barLog.entries[2].filled = 0

\* the orders that the matching loop of the last bar processed
ProcessedOnLastBar == {barLog.entries[k].id : k \in DOMAIN barLog.entries}

\* C15: an order created by a handler of the event of bar N is not matched
\* against bar N: the event reaches the handler only after bar N has been
\* matched, and every fill of the order is of a later bar.
C15_CreatedInHandlerMatchedLater ==
    /\ handling # NoEvent => handling.when <= nbars
    /\ \A o \in OrderIds :
          createdIn[o] > 0 =>
              /\ createdIn[o] <= nbars
              /\ \A k \in DOMAIN orders[o].fills : orders[o].fills[k].when > createdIn[o]
              /\ o \in ProcessedOnLastBar => barLog.when > createdIn[o]

\* an order created in the handler of the first bar was filled by the second
C15_Witness ==
    \E o \in OrderIds :
        /\ createdIn[o] = 1
        /\ Len(orders[o].fills) = 1 /\ orders[o].fills[1].when = 2

\* C16: a bar event is recorded as the last bar of its pair, the open orders
\* of the pair are matched, and then the event is pushed to the event source
\* of its pair, if there is one, and to no other.
C16_RecordMatchForward ==
    \A bar \in Bars :
        OnBarEventEnabled =>
            LET n == OnBarEventStep(bar)
            IN  /\ n.lastBars = [lastBars EXCEPT ![bar.pair] = bar]
                /\ n.barLog.pair = bar.pair /\ n.barLog.when = n.nbars
                /\ DOMAIN n.barEventSource = DOMAIN barEventSource
                /\ \A p \in DOMAIN barEventSource :
                      n.barEventSource[p] =
                          IF p = bar.pair /\ n.result.status = "ok"
                          THEN Append(barEventSource[p],
                                      [pair |-> bar.pair, when |-> n.nbars])
                          ELSE barEventSource[p]

\* both pairs have subscribers, the last bar matched an order and was
\* forwarded to the source of its pair only
C16_Witness ==
    /\ result.op = "bar" /\ DOMAIN barEventSource = Pairs
    /\ barLog.entries # <<>>
    /\ \E p \in Pairs :
          /\ barEventSource[p] # <<>>
          /\ barEventSource[p][Len(barEventSource[p])] = [pair |-> barLog.pair, when |-> nbars]
    /\ \E p \in Pairs : barEventSource[p] = <<>>

\* C20: create_loan with an amount that is not positive fails with "Invalid
\* amount", whatever the lending strategy; create_loan on an exchange without
\* lending fails with "Lending is not supported"; neither registers a loan
\* nor changes available, hold or borrowed.
C20_RefusedLoanChangesNothing ==
    \A symbol \in LoanSymbols, amount \in LoanAmounts, collateral \in ManagerCollaterals :
        CreateLoanEnabled =>
            LET n == CreateLoanStep(symbol, amount, collateral)
                unchanged == /\ n.loans = loans /\ n.balances = balances
                             /\ n.orders = orders /\ n.openItems = openItems
            IN  /\ amount <= 0 =>
                      n.result.status = "Invalid amount" /\ unchanged
                /\ amount > 0 /\ lendingStrategy = "NoLoans" =>
                      n.result.status = "Lending is not supported" /\ unchanged

\* an exchange without lending has just refused a loan for its amount, while
\* an order holds a balance
C20_Witness ==
    /\ result.op = "create_loan" /\ result.status = "Invalid amount"
    /\ lendingStrategy = "NoLoans"
    /\ \E o \in OrderIds, s \in Symbols : GetBalanceOnHoldForOrder(balances, o, s) > 0

\* C19: get_bid_ask returns (none, none) for a pair exactly when no bar has
\* been seen for it; otherwise bid and ask are the close of the pair's last
\* bar minus and plus the half spread, the half spread being
\* close * spread / 100 / 2 truncated to the quote precision, so that
\* bid <= close <= ask.
C19_BidAskFromLastClose ==
    result.op = "get_bid_ask" =>
        LET last_bar == lastBars[result.pair]
            half_spread == TruncateDecimal(last_bar.close * bidAskSpread[1],
                                           bidAskSpread[2] * 200)
        IN  /\ result.bid_ask = NoBidAsk <=> last_bar = NoBar
            /\ last_bar # NoBar =>
                  /\ result.bid_ask.bid = last_bar.close - half_spread
                  /\ result.bid_ask.ask = last_bar.close + half_spread
                  /\ result.bid_ask.bid <= last_bar.close
                  /\ last_bar.close <= result.bid_ask.ask

\* C18: every open item of the container is in its open index, whatever
\* adds, closes and get_open iterations came before, so that a get_open run
\* to its end yields every open item.
C18_OpenItemsIndexed ==
    \A o \in OrderIds :
        IsOpen(orders[o]) => \E k \in DOMAIN openItems : openItems[k] = o

\* ---------------------------------------------------------------- loans
\* what create_loan(symbol, amount) has done when the call has returned and
\* left n: on success the ledger moved and the registry (before, after) has
\* one more loan, open; otherwise nothing moved
C21_Created(n, symbol, amount, collateral, before, after) ==
    IF n.result.status = "ok"
    THEN /\ \A s \in Symbols :
              /\ n.balances.available[s] =
                    balances.available[s] + (IF s = symbol THEN amount ELSE 0)
                    - collateral[s]
              /\ n.balances.borrowed[s] =
                    balances.borrowed[s] + (IF s = symbol THEN amount ELSE 0)
              /\ n.balances.hold[s] = balances.hold[s] + collateral[s]
         /\ Len(after) = Len(before) + 1
         /\ SubSeq(after, 1, Len(before)) = before
         /\ after[Len(after)].is_open
         /\ after[Len(after)].borrowed_symbol = symbol
         /\ after[Len(after)].borrowed_amount = amount
         /\ n.result.id = Len(after)
    ELSE /\ after = before
         /\ n.balances = balances /\ n.collateralByLoan = collateralByLoan

\* C21: a successful create_loan(symbol, amount) credits amount to
\* available[symbol] and to borrowed[symbol], moves the required collateral
\* from available to hold and registers the loan as open; a create_loan that
\* fails registers no loan, records no collateral and leaves the ledger as it
\* was.  Both for Exchange.create_loan and for LoanManager.create_loan, which
\* also records the collateral of the loan.
C21_CreateLoanEffect ==
    \A symbol \in LoanSymbols, amount \in LoanAmounts, collateral \in ManagerCollaterals :
        /\ CreateLoanEnabled =>
              LET n == CreateLoanStep(symbol, amount, collateral)
              IN  /\ C21_Created(n, symbol, amount, collateral, loans, n.loans)
                  /\ n.managerLoans = managerLoans
                  /\ n.collateralByLoan = collateralByLoan
        /\ ManagerCreateLoanEnabled =>
              LET n == ManagerCreateLoanStep(symbol, amount, collateral)
              IN  /\ C21_Created(n, symbol, amount, collateral, managerLoans,
                                 n.managerLoans)
                  /\ n.result.status = "ok" =>
                        /\ DOMAIN n.collateralByLoan
                              = DOMAIN collateralByLoan \cup {n.result.id}
                        /\ n.collateralByLoan[n.result.id] = collateral
                  /\ n.loans = loans

\* a loan has just been created while the exchange and the loan manager each
\* have an open loan, one of them with a collateral in the borrowed symbol
C21_Witness ==
    /\ result.op = "create_loan" /\ result.status = "ok"
    /\ \E l \in DOMAIN loans : loans[l].is_open
    /\ \E l \in DOMAIN managerLoans :
          /\ managerLoans[l].is_open
          /\ collateralByLoan[l][managerLoans[l].borrowed_symbol] > 0
    /\ \E s \in Symbols : balances.hold[s] > 0

\* what a repayment takes from available[s]: the principal and the interest
AmountDue(loan, interest, s) ==
    (IF s = loan.borrowed_symbol THEN loan.borrowed_amount ELSE 0) + Get(interest, s)

\* repay_loan of an open loan has returned and left n: refused if a symbol is
\* short even with the collateral released, accepted if available covers the
\* principal and the interest in every symbol, and without effect unless
\* accepted
C22_Settled(n, loan, interest, collateral) ==
    /\ (\E s \in Symbols :
           balances.available[s] + collateral[s] < AmountDue(loan, interest, s))
          => n.result.status \in {"Not enough balance", "NotEnoughBalance"}
    /\ (\A s \in Symbols : balances.available[s] >= AmountDue(loan, interest, s))
          => n.result.status = "ok"
    /\ n.result.status # "ok" =>
          /\ n.loans = loans /\ n.managerLoans = managerLoans
          /\ n.collateralByLoan = collateralByLoan /\ n.balances = balances

C23_Unchanged(n) ==
    /\ n.loans = loans /\ n.managerLoans = managerLoans
    /\ n.collateralByLoan = collateralByLoan
    /\ n.balances = balances /\ n.orders = orders

\* C23: repay_loan on an id that is not registered fails with "Loan not
\* found" and on a loan that is closed with "Loan is not open", both without
\* any change of loans, collateral records, ledger or orders; a repayment
\* that succeeds is that of an open loan and closes it, and no step opens a
\* closed loan again, so every loan is repaid at most once.
C23_RepayUnknownOrClosed ==
    /\ \A id \in 1..MaxLoans, raw_interest \in ManagerInterests :
          /\ LET n == RepayLoanStep(id, raw_interest)
             IN  /\ id \notin DOMAIN loans =>
                       /\ n.result.status = "Loan not found"
                       /\ C23_Unchanged(n)
                 /\ (id \in DOMAIN loans /\ ~loans[id].is_open) =>
                       /\ n.result.status = "Loan is not open"
                       /\ C23_Unchanged(n)
                 /\ n.result.status = "ok" =>
                       id \in DOMAIN loans /\ loans[id].is_open /\ ~n.loans[id].is_open
          /\ LET n == ManagerRepayLoanStep(id, raw_interest)
             IN  /\ id \notin DOMAIN managerLoans =>
                       /\ n.result.status = "Loan not found"
                       /\ C23_Unchanged(n)
                 /\ (id \in DOMAIN managerLoans /\ ~managerLoans[id].is_open) =>
                       /\ n.result.status = "Loan is not open"
                       /\ C23_Unchanged(n)
                 /\ n.result.status = "ok" =>
                       /\ id \in DOMAIN managerLoans
                       /\ managerLoans[id].is_open /\ ~n.managerLoans[id].is_open
    /\ EveryStepLoans(LAMBDA n :
          /\ \A l \in DOMAIN loans : ~loans[l].is_open => ~n.loans[l].is_open
          /\ \A l \in DOMAIN managerLoans :
                ~managerLoans[l].is_open => ~n.managerLoans[l].is_open)

\* the repayment of a closed loan has just been refused, while the other
\* registry holds an open loan with its collateral on hold
C23_Witness ==
    /\ result.op = "repay_loan" /\ result.status = "Loan is not open"
    /\ \/ /\ \E l \in DOMAIN loans : ~loans[l].is_open
          /\ \E l \in DOMAIN managerLoans : managerLoans[l].is_open
       \/ /\ \E l \in DOMAIN managerLoans : ~managerLoans[l].is_open
          /\ \E l \in DOMAIN loans : loans[l].is_open
    /\ \E s \in Symbols : balances.hold[s] > 0

\* a successful repay_loan that left n has taken the principal and the
\* interest from available, the principal from borrowed, and moved the
\* collateral from hold back to available
C24_Repaid(n, loan, interest, collateral) ==
    \A s \in Symbols :
        /\ n.balances.available[s] =
              balances.available[s] - AmountDue(loan, interest, s) + collateral[s]
        /\ n.balances.borrowed[s] =
              balances.borrowed[s]
              - (IF s = loan.borrowed_symbol THEN loan.borrowed_amount ELSE 0)
        /\ n.balances.hold[s] = balances.hold[s] - collateral[s]

\* the ledger as get_balance reports it
Reported(bal) == [available |-> bal.available, hold |-> bal.hold, borrowed |-> bal.borrowed]

\* C24: a successful repay_loan decreases available and borrowed of the
\* borrowed symbol by the borrowed amount, decreases available of each
\* interest symbol by the truncated interest, releases exactly the collateral
\* that create_loan put on hold for the loan and closes the loan; a
\* repay_loan without interest that succeeds right after a successful
\* create_loan leaves available, hold and borrowed of every symbol as they
\* were before the create_loan.
C24_RepayLoanEffect ==
    /\ \A id \in 1..MaxLoans, raw_interest \in ManagerInterests :
          /\ LET n == RepayLoanStep(id, raw_interest)
             IN  n.result.status = "ok" =>
                    /\ C24_Repaid(n, loans[id], TruncatedInterest(raw_interest),
                                  loans[id].collateral)
                    /\ n.loans = [loans EXCEPT ![id].is_open = FALSE]
          /\ LET n == ManagerRepayLoanStep(id, raw_interest)
             IN  n.result.status = "ok" =>
                    /\ C24_Repaid(n, managerLoans[id], TruncatedInterest(raw_interest),
                                  managerLoans[id].collateral)
                    /\ n.managerLoans = [managerLoans EXCEPT ![id].is_open = FALSE]
                    /\ id \notin DOMAIN n.collateralByLoan
    /\ \A symbol \in LoanSymbols, amount \in LoanAmounts,
          collateral \in ManagerCollaterals :
          /\ LET n == CreateLoanStep(symbol, amount, collateral)
             IN  (CreateLoanEnabled /\ n.result.status = "ok") =>
                    LET loan == n.loans[n.result.id]
                        rep  == RepayLoan(n.balances, loan, EmptyMap)
                    IN  (/\ ~RaiseIfShort(n.balances,
                                          (loan.borrowed_symbol :> loan.borrowed_amount))
                         /\ rep.ok)
                            => Reported(rep.bal) = Reported(balances)
          /\ LET n == ManagerCreateLoanStep(symbol, amount, collateral)
             IN  (ManagerCreateLoanEnabled /\ n.result.status = "ok") =>
                    LET loan == n.managerLoans[n.result.id]
                        u    == RepayLoanUpdates(loan, EmptyMap,
                                                 n.collateralByLoan[n.result.id])
                        upd  == Update(n.balances, u.balance_updates, u.borrowed_updates,
                                       u.hold_updates)
                    IN  upd.ok /\ Reported(upd.bal) = Reported(balances)

\* a loan of each registry has been repaid, the last one just now, and
\* nothing is borrowed any more
C24_Witness ==
    /\ result.op = "repay_loan" /\ result.status = "ok"
    /\ \E l \in DOMAIN loans : ~loans[l].is_open
    /\ \E l \in DOMAIN managerLoans :
          ~managerLoans[l].is_open /\ managerLoans[l].collateral["USD"] > 0
    /\ \A s \in Symbols : balances.borrowed[s] = 0

\* C25: the balance get_balance reports for a symbol carries the available,
\* hold and borrowed balances of the ledger, and its total is
\* available + hold - borrowed - interest.
C25_TotalOfBalance ==
    result.op = "get_balance" =>
        LET b == result.balance
        IN  /\ b.available = balances.available[result.symbol]
            /\ b.hold = balances.hold[result.symbol]
            /\ b.borrowed = balances.borrowed[result.symbol]
            /\ b.total = b.available + b.hold - b.borrowed - b.interest

\* the balance of a symbol has been reported while part of it is borrowed and
\* part of it is on hold
C25_Witness ==
    /\ result.op = "get_balance"
    /\ result.balance.borrowed > 0
    /\ result.balance.hold > 0
    /\ result.balance.available > 0

\* ------------------------------------------------------ limit and stop
\* the bar reaches the price from the side of the operation
Reaches(operation, bar, price) ==
    IF operation = "BUY" THEN bar.low <= price ELSE bar.high >= price

\* the last fill of the order is one of filled base units at the price
LastFillAt(order, filled, price) ==
    LET fill == order.fills[Len(order.fills)]
        sign == GetBaseSignForOperation(order.operation)
    IN  /\ Len(order.fills) > 0
        /\ fill.balance_updates[BaseSymbol(order.pair)] = sign * filled
        /\ fill.balance_updates[QuoteSymbol(order.pair)] = -sign * filled * price

\* the hold of the order covers what the rest of it pays at the price
HoldCovers(bal, order, price) ==
    IF order.operation = "BUY"
    THEN GetBalanceOnHoldForOrder(bal, order.id, QuoteSymbol(order.pair))
            >= AmountPending(order) * price
    ELSE GetBalanceOnHoldForOrder(bal, order.id, BaseSymbol(order.pair))
            >= AmountPending(order)

\* the limit order of scenarios S2 and S3 right after its creation
C26_LimitBuy97 ==
    /\ Len(orders) = 1
    /\ orders[1].type = "Limit" /\ orders[1].operation = "BUY"
    /\ orders[1].limit_price = 97 /\ orders[1].amount = 1
    /\ IsOpen(orders[1]) /\ orders[1].amount_filled = 0
    /\ balances.available["USD"] = 903 /\ balances.hold["USD"] = 97
    /\ balances.available["BTC"] = 0

\* C26: on a bar of its pair a Limit order is not filled unless the bar's low
\* (BUY) or high (SELL) reaches the limit price, every fill of it is at
\* exactly the limit price, and it is filled whole when the price is reached,
\* its hold covers the payment and the liquidity left covers the amount.  A
\* limit BUY of 1 at 97 with USD 1000 stays OPEN with 97 on hold on a bar
\* with low 98, and a bar with low 94 fills it at 97: BTC 1, USD available
\* 903, hold 0, order COMPLETED.
C26_LimitFillsIffTouched ==
    [][ \A bar \in ScenarioBars : OnBarEvent(bar) =>
          /\ \A k \in DOMAIN barLog'.entries :
                LET e == barLog'.entries[k]
                    before == orders[e.id]
                    after == orders'[e.id]
                    touched == Reaches(before.operation, bar, before.limit_price)
                IN  before.type = "Limit" =>
                      /\ ~touched =>
                            /\ e.filled = 0
                            /\ after = before
                            /\ \A s \in Symbols :
                                  GetBalanceOnHoldForOrder(balances', e.id, s)
                                     = GetBalanceOnHoldForOrder(balances, e.id, s)
                      /\ e.filled > 0 =>
                            /\ touched
                            /\ LastFillAt(after, e.filled, before.limit_price)
                            /\ after.amount_filled = before.amount_filled + e.filled
                      /\ ( /\ touched
                           /\ HoldCovers(balances, before, before.limit_price)
                           /\ e.before >= AmountPending(before) * ShareDen )
                            => /\ e.filled = AmountPending(before)
                               /\ after.state = "COMPLETED"
          /\ (C26_LimitBuy97 /\ bar.low = 98) =>
                /\ orders' = orders
                /\ Reported(balances') = Reported(balances)
          /\ (C26_LimitBuy97 /\ bar.low = 94 /\ bar.volume = 10) =>
                /\ orders'[1].state = "COMPLETED"
                /\ orders'[1].amount_filled = 1
                /\ LastFillAt(orders'[1], 1, 97)
                /\ balances'.available["BTC"] = 1
                /\ balances'.available["USD"] = 903
                /\ \A s \in Symbols : balances'.hold[s] = 0
      ]_vars

\* scenario S3 has run: the limit BUY at 97 was left open by a first bar and
\* filled by the second, the bar with low 94
C26_Witness ==
    /\ nbars = 2
    /\ lastBars[BtcUsd] # NoBar /\ lastBars[BtcUsd].low = 94
    /\ Len(orders) = 1
    /\ orders[1].type = "Limit" /\ orders[1].limit_price = 97
    /\ orders[1].state = "COMPLETED"
    /\ Len(orders[1].fills) = 1 /\ orders[1].fills[1].when = 2
    /\ createdIn[1] = 0
    /\ balances.available["BTC"] = 1
    /\ balances.available["USD"] = 903
    /\ balances.hold["USD"] = 0

\* the bar reaches the stop price: its high for a BUY, its low for a SELL
ReachesStop(operation, bar, stop_price) ==
    IF operation = "BUY" THEN bar.high >= stop_price ELSE bar.low <= stop_price

\* the stop limit order of scenario S5 right after its creation
C27_StopLimit105 ==
    /\ Len(orders) = 1
    /\ orders[1].type = "StopLimit" /\ orders[1].operation = "BUY"
    /\ orders[1].stop_price = 105 /\ orders[1].limit_price = 106
    /\ orders[1].amount = 1
    /\ IsOpen(orders[1]) /\ orders[1].amount_filled = 0 /\ ~orders[1].stop_hit
    /\ balances.available["USD"] = 894 /\ balances.hold["USD"] = 106
    /\ balances.available["BTC"] = 0

\* C27: an open Stop or StopLimit order whose stop has not been hit is left
\* as it is by a bar of its pair that does not reach the stop (BUY: high <
\* stop, SELL: low > stop); after a bar of its pair stop_hit is true iff it
\* was true before or the bar reaches the stop, and no step sets it back to
\* false; a StopLimit order fills at its limit price only, also on the bar
\* that triggers it.  Scenario S5: stop 105, limit 106, USD 1000; the bar
\* with high 104 leaves the order open and not triggered, the bar with high
\* 107 fills it at 106: BTC 1, USD 894, COMPLETED.
C27_StopTrigger ==
    [][ /\ \A o \in OrderIds : orders[o].stop_hit => orders'[o].stop_hit
        /\ \A bar \in ScenarioBars : OnBarEvent(bar) =>
              /\ \A k \in DOMAIN barLog'.entries :
                    LET e == barLog'.entries[k]
                        before == orders[e.id]
                        after == orders'[e.id]
                        reached == ReachesStop(before.operation, bar, before.stop_price)
                    IN  before.type \in {"Stop", "StopLimit"} =>
                          /\ (~before.stop_hit /\ ~reached) =>
                                /\ e.filled = 0
                                /\ after = before
                                /\ \A s \in Symbols :
                                      GetBalanceOnHoldForOrder(balances', e.id, s)
                                         = GetBalanceOnHoldForOrder(balances, e.id, s)
                          /\ after.stop_hit = (before.stop_hit \/ reached)
                          /\ (before.type = "StopLimit" /\ e.filled > 0) =>
                                /\ Reaches(before.operation, bar, before.limit_price)
                                /\ LastFillAt(after, e.filled, before.limit_price)
              /\ \A o \in OrderIds :
                    ( /\ IsOpen(orders[o]) /\ orders[o].pair = bar.pair
                      /\ orders[o].type \in {"Stop", "StopLimit"} )
                        => \E k \in DOMAIN barLog'.entries : barLog'.entries[k].id = o
              /\ (C27_StopLimit105 /\ bar.high = 104) =>
                    /\ orders' = orders
                    /\ Reported(balances') = Reported(balances)
              /\ (C27_StopLimit105 /\ bar.high = 107) =>
                    /\ orders'[1].state = "COMPLETED"
                    /\ orders'[1].stop_hit
                    /\ LastFillAt(orders'[1], 1, 106)
                    /\ balances'.available["BTC"] = 1
                    /\ balances'.available["USD"] = 894
                    /\ \A s \in Symbols : balances'.hold[s] = 0
      ]_vars

\* scenario S5 has run: the stop limit order was left open and not triggered
\* by a first bar, then triggered and filled at 106 by the bar with high 107
C27_Witness ==
    /\ nbars = 2
    /\ lastBars[BtcUsd] # NoBar /\ lastBars[BtcUsd].high = 107
    /\ Len(orders) = 1
    /\ orders[1].type = "StopLimit" /\ orders[1].stop_price = 105
    /\ orders[1].state = "COMPLETED" /\ orders[1].stop_hit
    /\ Len(orders[1].fills) = 1 /\ orders[1].fills[1].when = 2
    /\ balances.available["BTC"] = 1
    /\ balances.available["USD"] = 894
    /\ balances.hold["USD"] = 0

\* --------------------------------------------------------------- two runs
\* Two exchanges built with the same initial balances and configuration are
\* given the same calls and the same bars; uuid4 gives each of them ids of
\* its own.  A run is the state of one exchange: orders and loans by id, the
\* ids in the order of creation, _open_items, _reindex_counter, the ledger
\* and the last bars.
GeneratedIds == {5, 7}

NewRun(counter) ==
    [orders |-> <<>>, created |-> <<>>, openItems |-> <<>>, reindexCounter |-> counter,
     balances |-> NewAccountBalances(InitialBalances),
     lastBars |-> [p \in Pairs |-> NoBar], loans |-> <<>>, loansCreated |-> <<>>]

\* the id of the k-th order (loan) the run created, 0 if there is none
CreatedId(created, k) == IF k \in DOMAIN created THEN created[k] ELSE 0

\* get_open that yields the open items by ascending id
IterationOrder_ById(open_items) ==
    IF Len(open_items) = 2 /\ open_items[1] > open_items[2]
    THEN <<open_items[2], open_items[1]>>
    ELSE open_items

\* get_open: for item in self._open_items
IterationOrder(open_items) == open_items

\* create_order
RunCreateOrder(run, req, id) ==
    LET required_balances == EstimateRequiredBalances(req, run.lastBars, feeStrategy)
        order == CreateOrderFromRequest(req, id)
        acc == AcceptOrder(run.balances, id, required_balances)
    IN  IF RequestRejected(req) \/ RaiseIfShort(run.balances, required_balances)
        THEN run
        ELSE [run EXCEPT !.orders = (id :> order) @@ @,
                         !.created = Append(@, id),
                         !.openItems = IF IsOpen(order) THEN Append(@, id) ELSE @,
                         !.balances = acc.bal]

\* cancel_order
RunCancelOrder(run, id) ==
    IF id \notin DOMAIN run.orders THEN run
    ELSE IF ~CancelAllowed(run.orders[id]) THEN run
    ELSE LET order == Cancel(run.orders[id])
             upd == CancelOrderUpdate(run.balances, order)
         IN  [run EXCEPT !.orders[id] = order, !.balances = upd.bal]

\* _on_bar_event
RunOnBarEvent(run, bar, when) ==
    LET st == ProcessOpenItems([orders |-> run.orders, bal |-> run.balances,
                                liq |-> LiquidityOnBar(bar), error |-> "none",
                                log |-> <<>>, newOpen |-> <<>>],
                               IterationOrder(run.openItems), 1, bar, when, feeStrategy)
        counter == run.reindexCounter + 1
    IN  [run EXCEPT !.lastBars[bar.pair] = bar,
                    !.reindexCounter = counter,
                    !.openItems = IF counter % ReindexEvery = 0 /\ st.error = "none"
                                  THEN st.newOpen ELSE @,
                    !.orders = st.orders,
                    !.balances = st.bal]

\* create_loan
RunCreateLoan(run, symbol, amount, collateral, id) ==
    LET loan == [id |-> id, borrowed_symbol |-> symbol, borrowed_amount |-> amount,
                 is_open |-> TRUE, collateral |-> collateral]
        acc == AcceptLoan(run.balances, loan)
    IN  IF LoanAmountInvalid(amount) \/ lendingStrategy = "NoLoans" \/ ~acc.ok
        THEN run
        ELSE [run EXCEPT !.balances = acc.bal,
                         !.loans = (id :> loan) @@ @,
                         !.loansCreated = Append(@, id)]

\* repay_loan
RunRepayLoan(run, id, raw_interest) ==
    IF id \notin DOMAIN run.loans THEN run
    ELSE LET loan == run.loans[id]
             rep == RepayLoan(run.balances, loan, TruncatedInterest(raw_interest))
         IN  IF \/ LoanNotOpen(loan)
                \/ RaiseIfShort(run.balances,
                                (loan.borrowed_symbol :> loan.borrowed_amount))
                \/ ~rep.ok
             THEN run
             ELSE [run EXCEPT !.balances = rep.bal, !.loans[id] = CloseLoan(loan)]

\* the calls made and the bars delivered
RunRequests ==
    { Request("Market", "SELL", BtcUsd, 4, NoPrice, NoPrice),
      Request("Limit", "BUY", BtcUsd, 12, 12, NoPrice),
      Request("Limit", "BUY", BtcUsd, 4, 9, NoPrice),
      Request("Limit", "BUY", EthUsd, 4, 9, NoPrice) }

RunsUnchanged ==
    UNCHANGED <<orders, openItems, reindexCounter, loans, balances, lastBars,
                feeStrategy, lendingStrategy, bidAskSpread, barLog, result,
                barEventSource, handling, createdIn, generators, managerLoans,
                collateralByLoan, refusedRepayments,
                   liquidityStrategies, factoryCalls, liquidityUsed>>

\* the same call on both exchanges; each draws an id of its own
RunsCreateOrder(req) ==
    /\ Len(runs[1].created) < MaxOrders
    /\ \E id1 \in GeneratedIds \ DOMAIN runs[1].orders,
          id2 \in GeneratedIds \ DOMAIN runs[2].orders :
          runs' = <<RunCreateOrder(runs[1], req, id1), RunCreateOrder(runs[2], req, id2)>>
    /\ RunsUnchanged /\ UNCHANGED nbars

\* both strategies cancel the k-th order they created
RunsCancelOrder(k) ==
    /\ runs' = <<RunCancelOrder(runs[1], CreatedId(runs[1].created, k)),
                 RunCancelOrder(runs[2], CreatedId(runs[2].created, k))>>
    /\ RunsUnchanged /\ UNCHANGED nbars

RunsOnBarEvent(bar) ==
    /\ nbars < MaxBars
    /\ nbars' = nbars + 1
    /\ runs' = <<RunOnBarEvent(runs[1], bar, nbars + 1),
                 RunOnBarEvent(runs[2], bar, nbars + 1)>>
    /\ RunsUnchanged

RunsCreateLoan(symbol, amount, collateral) ==
    /\ Len(runs[1].loansCreated) < MaxLoans
    /\ \E id1 \in GeneratedIds \ DOMAIN runs[1].loans,
          id2 \in GeneratedIds \ DOMAIN runs[2].loans :
          runs' = <<RunCreateLoan(runs[1], symbol, amount, collateral, id1),
                    RunCreateLoan(runs[2], symbol, amount, collateral, id2)>>
    /\ RunsUnchanged /\ UNCHANGED nbars

\* both strategies repay the k-th loan they created
RunsRepayLoan(k, raw_interest) ==
    /\ runs' = <<RunRepayLoan(runs[1], CreatedId(runs[1].loansCreated, k), raw_interest),
                 RunRepayLoan(runs[2], CreatedId(runs[2].loansCreated, k), raw_interest)>>
    /\ RunsUnchanged /\ UNCHANGED nbars

InitRuns ==
    /\ orders = <<>>
    /\ openItems = <<>>
    /\ loans = <<>>
    /\ balances = NewAccountBalances(InitialBalances)
    /\ lastBars = [p \in Pairs |-> NoBar]
    /\ \E c \in Configurations :
          /\ feeStrategy = c.fee
          /\ lendingStrategy = c.lending
          /\ bidAskSpread = c.spread
          /\ reindexCounter = c.counter
          /\ runs = <<NewRun(c.counter), NewRun(c.counter)>>
    /\ nbars = 0
    /\ barLog = [pair |-> <<>>, when |-> 0, entries |-> <<>>]
    /\ result = [op |-> "init", status |-> "ok", id |-> 0]
    /\ barEventSource = <<>>
    /\ handling = NoEvent
    /\ createdIn = <<>>
    /\ generators = <<>>
    /\ managerLoans = <<>>
    /\ collateralByLoan = <<>>
    /\ refusedRepayments = {}
    /\ liquidityStrategies = <<>>
    /\ factoryCalls = 0
    /\ liquidityUsed = [p \in Pairs |-> 0]

NextRuns ==
    \/ \E req \in RunRequests : RunsCreateOrder(req)
    \/ \E k \in 1..MaxOrders : RunsCancelOrder(k)
    \/ \E bar \in Bars : RunsOnBarEvent(bar)
    \/ \E symbol \in LoanSymbols, amount \in LoanAmounts, collateral \in Collaterals :
          RunsCreateLoan(symbol, amount, collateral)
    \/ \E k \in 1..MaxLoans, raw_interest \in Interests : RunsRepayLoan(k, raw_interest)

SpecRuns == InitRuns /\ [][NextRuns]_vars

\* what a run ends with, up to the generated ids: the reported balances, and
\* the orders and the loans in the order of their creation
Outcome(run) ==
    [balances |-> Reported(run.balances),
     orders |-> [k \in DOMAIN run.created |-> [run.orders[run.created[k]] EXCEPT !.id = 0]],
     loans |-> [k \in DOMAIN run.loansCreated |->
                  [run.loans[run.loansCreated[k]] EXCEPT !.id = 0]]]

\* C28: two exchanges started from the same initial balances and
\* configuration and given the same bars and the same calls hold the same
\* available, hold and borrowed balances of every symbol and the same orders
\* (state, amount filled, fills) and loans, up to the ids generated.
C28_Deterministic ==
    Len(runs) = 2 => Outcome(runs[1]) = Outcome(runs[2])

\* the two exchanges have matched two orders of one pair on a bar, the ids of
\* one exchange ascending and those of the other descending in the order of
\* creation, and at least one order was filled
C28_Witness ==
    /\ Len(runs) = 2
    /\ nbars > 0
    /\ Len(runs[1].created) = 2 /\ Len(runs[2].created) = 2
    /\ runs[1].created[1] < runs[1].created[2]
    /\ runs[2].created[1] > runs[2].created[2]
    /\ \A k \in 1..2 : runs[1].orders[runs[1].created[k]].pair = BtcUsd
    /\ \E k \in 1..2 : Len(runs[1].orders[runs[1].created[k]].fills) > 0
    /\ \E k \in 1..2 : IsOpen(runs[1].orders[runs[1].created[k]])

\* ------------------------------------------------------- the fill, whole
\* available + hold of the symbol
Funds(bal, s) == bal.available[s] + bal.hold[s]

\* C29: when the matching loop fills an order on a bar, exactly one fill is
\* recorded, the liquidity left shrinks by the base amount of the fill, the
\* order's amount_filled grows by the same amount, available + hold of every
\* symbol changes by the fill's balance update plus fee for that symbol, and
\* borrowed does not change; and when it does not fill the order, liquidity,
\* amount_filled, available + hold and borrowed stay as they are.
C29_FillIsOneUpdate ==
    \A bar \in Bars, k \in DOMAIN openItems :
        LET id == openItems[k]
            st == LoopStateBefore(bar, k)
            st2 == ProcessOrder(st, id, bar, nbars + 1, feeStrategy)
            before == st.orders[id]
            after == st2.orders[id]
            fill == after.fills[Len(after.fills)]
            filled == Abs(fill.balance_updates[BaseSymbol(bar.pair)])
            final_updates == AddAmounts(fill.balance_updates, fill.fees)
        IN  (st.error = "none" /\ IsOpen(before) /\ before.pair = bar.pair) =>
              IF after.fills # before.fills
              THEN /\ after.fills = Append(before.fills, fill)
                   /\ filled > 0
                   /\ AvailableLiquidity(st.liq) - AvailableLiquidity(st2.liq)
                         = filled * ShareDen
                   /\ after.amount_filled = before.amount_filled + filled
                   /\ \A s \in Symbols :
                         /\ Funds(st2.bal, s) - Funds(st.bal, s) = Get(final_updates, s)
                         /\ st2.bal.borrowed[s] = st.bal.borrowed[s]
                   /\ st2.error = "none"
              ELSE /\ st2.liq = st.liq
                   /\ after.amount_filled = before.amount_filled
                   /\ \A s \in Symbols :
                         /\ Funds(st2.bal, s) = Funds(st.bal, s)
                         /\ st2.bal.borrowed[s] = st.bal.borrowed[s]

\* the last bar filled two orders, one of them in part, and a fee was charged
C29_Witness ==
    /\ result.op = "bar" /\ result.status = "ok"
    /\ \E k1, k2 \in DOMAIN barLog.entries :
          /\ k1 # k2
          /\ barLog.entries[k1].filled > 0
          /\ barLog.entries[k2].filled > 0
          /\ IsOpen(orders[barLog.entries[k2].id])
          /\ LET order == orders[barLog.entries[k1].id]
             IN  order.fills[Len(order.fills)].fees # EmptyMap

\* C30: a bar of one pair leaves every order of another pair as it is
\* (state, amount filled, fills, stop_hit) with the holds it has, and leaves
\* the last bar stored for every other pair as it is.
C30_OtherPairsUntouched ==
    \A bar \in Bars :
        OnBarEventEnabled =>
          LET n == OnBarEventStep(bar)
          IN  /\ \A o \in OrderIds :
                    orders[o].pair # bar.pair =>
                       /\ n.orders[o] = orders[o]
                       /\ \A s \in Symbols :
                             GetBalanceOnHoldForOrder(n.balances, o, s)
                                = GetBalanceOnHoldForOrder(balances, o, s)
                       /\ \A k \in DOMAIN n.barLog.entries : n.barLog.entries[k].id # o
              /\ \A p \in Pairs \ {bar.pair} : n.lastBars[p] = lastBars[p]
              /\ n.lastBars[bar.pair] = bar

\* a BTC/USD bar has just filled a BTC/USD order while an ETH/USD order is
\* open with a hold and an ETH/USD bar is stored
C30_Witness ==
    /\ result.op = "bar" /\ barLog.pair = BtcUsd
    /\ \E k \in DOMAIN barLog.entries : barLog.entries[k].filled > 0
    /\ \E o \in OrderIds :
          /\ orders[o].pair = EthUsd /\ IsOpen(orders[o])
          /\ GetBalanceOnHoldForOrder(balances, o, "USD") > 0
    /\ lastBars[EthUsd] # NoBar

\* ------------------------------------------------- not filled on the bar
\* C31: when the matching loop does not fill a Limit, Stop or StopLimit order
\* on a bar, the order stays OPEN with the amount filled and the fills it had,
\* the whole ledger (available, hold, borrowed and the hold of every order,
\* per symbol) is as it was before the order was processed, no liquidity is
\* taken and no error ends the loop.
C31_NotFilledLeavesLedger ==
    \A bar \in Bars, k \in DOMAIN openItems :
        LET id == openItems[k]
            st == LoopStateBefore(bar, k)
            st2 == ProcessOrder(st, id, bar, nbars + 1, feeStrategy)
            before == st.orders[id]
            after == st2.orders[id]
        IN  ( /\ st.error = "none"
              /\ IsOpen(before) /\ before.pair = bar.pair
              /\ before.type \in {"Limit", "Stop", "StopLimit"}
              /\ after.fills = before.fills )
            => /\ st2.error = "none"
               /\ after.state = "OPEN"
               /\ after.amount_filled = before.amount_filled
               /\ st2.bal = st.bal
               /\ st2.liq = st.liq
               /\ \A o \in DOMAIN st.orders : o # id => st2.orders[o] = st.orders[o]

\* the last bar reached a Limit, a Stop or a StopLimit order, did not fill
\* it, and the order is open and holds what was held for it
C31_Witness ==
    /\ result.op = "bar" /\ result.status = "ok"
    /\ \E k \in DOMAIN barLog.entries :
          LET order == orders[barLog.entries[k].id]
          IN  /\ barLog.entries[k].filled = 0
              /\ order.type \in {"Limit", "Stop", "StopLimit"}
              /\ IsOpen(order)
              /\ \E s \in Symbols :
                    /\ GetBalanceOnHoldForOrder(balances, order.id, s) > 0
                    /\ GetBalanceOnHoldForOrder(balances, order.id, s)
                          = balances.acceptedHolds[order.id][s]

\* ------------------------------------------- the liquidity strategy of a pair
\* C32: the first bar of a pair is matched with a liquidity strategy that the
\* factory creates for it, every later bar of the pair is matched with the
\* instance the pair's previous bar was matched with and no instance is
\* created for it, and every bar starts with its whole budget.
C32_OneLiquidityStrategyPerPair ==
    [][ \A bar \in Bars : OnBarEvent(bar) =>
          /\ IF lastBars[bar.pair] = NoBar
             THEN /\ factoryCalls' = factoryCalls + 1
                  /\ liquidityUsed'[bar.pair] = factoryCalls'
             ELSE /\ factoryCalls' = factoryCalls
                  /\ liquidityUsed'[bar.pair] = liquidityUsed[bar.pair]
          /\ barLog'.entries # <<>> => barLog'.entries[1].before = bar.volume
      ]_vars

\* --------------------------------------------- the hypothetical updates
\* the amount of the symbol is there, is not zero and has the sign
SignedAmount(updates, s, sign) ==
    /\ s \in DOMAIN updates
    /\ updates[s][2] > 0
    /\ updates[s][1] # 0
    /\ GetSign(updates[s][1]) = sign

RoundingRequests ==
    { Request("Limit", "BUY", BtcUsd, 12, 9, NoPrice),
      Request("Limit", "SELL", BtcUsd, 12, 9, NoPrice),
      Request("Market", "SELL", BtcUsd, 12, NoPrice, NoPrice),
      Request("Market", "BUY", BtcUsd, 4, NoPrice, NoPrice) }
RoundingBars ==
    { Bar(BtcUsd, 10, 12, 9, 11, 10),
      Bar(BtcUsd, 10, 12, 9, 11, 6),
      Bar(BtcUsd, 10, 12, 9, 11, 2) }

NextRounding ==
    \/ \E req \in RoundingRequests : CreateOrder(req)
    \/ \E bar \in RoundingBars : OnBarEvent(bar)

SpecRounding == Init /\ [][NextRounding]_vars

\* t is n/d truncated toward zero: it is not farther from zero than n/d, is
\* less than one unit away from it, and is not of the opposite sign
IsTruncated(t, n, d) ==
    /\ d * Abs(t) <= Abs(n)
    /\ Abs(n) < d * (Abs(t) + 1)
    /\ t = 0 \/ GetSign(t) = GetSign(n)

\* r is n/d rounded half-even: it is at most half a unit away from n/d, and
\* is even when it is exactly half a unit away
IsRoundedHalfEven(r, n, d) ==
    /\ 2 * Abs(n - r * d) <= d
    /\ 2 * Abs(n - r * d) = d => r % 2 = 0

\* unrounded amounts n/d, ties and amounts below half a unit among them
RoundingNumerators == -6 .. 6
RoundingDenominators == {1, 4}

\* C34: _round_balance_updates gives the base amount truncated toward zero
\* and the quote amount rounded half-even, and removes an amount that has
\* become zero; in the matching loop the fill that is committed carries the
\* amounts rounded so, none of them zero, and when rounding leaves the base
\* or the quote amount zero the order is handled as not filled on the bar:
\* no fill is recorded, no liquidity is taken, the amount filled stays, a
\* Market order is canceled and any other order stays open.
C34_FillIsRounded ==
    /\ \A n \in RoundingNumerators, d \in RoundingDenominators :
          LET rounded == RoundBalanceUpdates(BtcUsd,
                            ("BTC" :> <<n, d>>) @@ ("USD" :> <<n, d>>))
          IN  /\ IsTruncated(Get(rounded, "BTC"), n, d)
              /\ IsRoundedHalfEven(Get(rounded, "USD"), n, d)
              /\ \A s \in DOMAIN rounded : rounded[s] # 0
    /\ \A bar \in RoundingBars, k \in DOMAIN openItems :
          LET id == openItems[k]
              st == LoopStateBefore(bar, k)
              before == st.orders[id]
              updates == GetBalanceUpdates(before, bar, st.liq)
              base == updates[BaseSymbol(bar.pair)]
              quote == updates[QuoteSymbol(bar.pair)]
              st2 == ProcessOrder(st, id, bar, nbars + 1, feeStrategy)
              after == st2.orders[id]
              fill == after.fills[Len(after.fills)]
          IN  ( /\ st.error = "none"
                /\ IsOpen(before) /\ before.pair = bar.pair
                /\ updates # EmptyMap ) =>
                /\ IF after.fills # before.fills
                   THEN /\ DOMAIN fill.balance_updates = {BaseSymbol(bar.pair), QuoteSymbol(bar.pair)}
                        /\ IsTruncated(fill.balance_updates[BaseSymbol(bar.pair)], base[1], base[2])
                        /\ IsRoundedHalfEven(fill.balance_updates[QuoteSymbol(bar.pair)],
                                             quote[1], quote[2])
                        /\ fill.balance_updates[BaseSymbol(bar.pair)] # 0
                        /\ fill.balance_updates[QuoteSymbol(bar.pair)] # 0
                   ELSE /\ st2.liq = st.liq
                        /\ after.amount_filled = before.amount_filled
                        /\ after.state = IF before.type = "Market" THEN "CANCELED" ELSE "OPEN"
                /\ (IsTruncated(0, base[1], base[2]) \/ IsRoundedHalfEven(0, quote[1], quote[2]))
                      => after.fills = before.fills

\* the last bar filled an order with a base amount that was truncated and a
\* quote amount that was exactly half a unit from two amounts, and left an
\* order without a fill whose base amount was less than a unit
C34_Witness ==
    /\ result.op = "bar" /\ result.status = "ok"
    /\ \E k \in DOMAIN barLog.entries :
          LET order == orders[barLog.entries[k].id]
              fill == order.fills[Len(order.fills)]
          IN  /\ barLog.entries[k].filled > 0
              /\ barLog.entries[k].before % ShareDen # 0
              /\ barLog.entries[k].before < order.amount * ShareDen
              /\ order.type = "Limit"
              /\ 2 * Abs(barLog.entries[k].before * order.limit_price
                            - ShareDen * Abs(fill.balance_updates["USD"])) = ShareDen
    /\ \E k \in DOMAIN barLog.entries :
          /\ barLog.entries[k].filled = 0
          /\ barLog.entries[k].before > 0
          /\ barLog.entries[k].before < ShareDen

\* ------------------------------------------------------ rounding of fees
\* the fees a fee strategy may compute, not yet rounded: amounts n/d in any
\* symbol, whole and not, zero among them
FeeAmounts == { <<n, d>> : n \in {-5, -4, -1, 0, 1, 4, 5}, d \in {1, ShareDen} }
FeeMaps == UNION { [S -> FeeAmounts] : S \in SUBSET Symbols }

\* a new exchange and the fees computed for a fill of the pair
InitFees ==
    /\ orders = <<>>
    /\ openItems = <<>>
    /\ loans = <<>>
    /\ balances = NewAccountBalances(InitialBalances)
    /\ lastBars = [p \in Pairs |-> NoBar]
    /\ \E c \in Configurations :
          /\ feeStrategy = c.fee
          /\ lendingStrategy = c.lending
          /\ bidAskSpread = c.spread
          /\ reindexCounter = c.counter
    /\ nbars = 0
    /\ barLog = [pair |-> <<>>, when |-> 0, entries |-> <<>>]
    /\ \E pair \in Pairs, fees \in FeeMaps :
          result = [op |-> "calculate_fees", status |-> "ok", id |-> 0, pair |-> pair,
                    fees |-> fees]
    /\ barEventSource = <<>>
    /\ handling = NoEvent
    /\ createdIn = <<>>
    /\ generators = <<>>
    /\ managerLoans = <<>>
    /\ collateralByLoan = <<>>
    /\ refusedRepayments = {}
    /\ runs = <<>>
    /\ liquidityStrategies = <<>>
    /\ factoryCalls = 0
    /\ liquidityUsed = [p \in Pairs |-> 0]

\* _round_fees(pair, fees)
RoundFeesOp ==
    /\ result.op = "calculate_fees"
    /\ result' = [op |-> "_round_fees", status |-> "ok", id |-> 0, pair |-> result.pair,
                  fees |-> result.fees,
                  rounded |-> RoundFees(result.pair, result.fees)]
    /\ UNCHANGED <<orders, openItems, reindexCounter, loans, balances, lastBars,
                   feeStrategy, lendingStrategy, bidAskSpread, nbars, barLog,
                   barEventSource, handling, createdIn, generators, managerLoans,
                   collateralByLoan, refusedRepayments, runs, liquidityStrategies,
                   factoryCalls, liquidityUsed>>

NextFees == RoundFeesOp

SpecFees == InitFees /\ [][NextFees]_vars

\* r is n/d rounded up, away from zero, to a whole number of units: it is not
\* smaller in magnitude than n/d, is less than a unit larger, and has its sign
IsRoundedUp(r, n, d) ==
    /\ Abs(r) * d >= Abs(n)
    /\ (Abs(r) - 1) * d < Abs(n) \/ r = 0
    /\ GetSign(r) = GetSign(n)

\* C35: _round_fees gives, for a fee in the base or the quote symbol of the
\* pair, the fee rounded up (away from zero) to a whole number of units of the
\* precision, never smaller in magnitude than the fee computed; for a fee in
\* any other symbol the fee as it was computed; and no entry for a fee that
\* is zero, and no entry that is zero.
C35_FeesRoundedUp ==
    result.op = "_round_fees" =>
        /\ DOMAIN result.rounded = {s \in DOMAIN result.fees : result.fees[s][1] # 0}
        /\ \A s \in DOMAIN result.rounded :
              LET fee == result.fees[s]
                  rounded == result.rounded[s]
              IN  /\ rounded[1] # 0
                  /\ IF s \in {BaseSymbol(result.pair), QuoteSymbol(result.pair)}
                     THEN /\ rounded[2] = 1
                          /\ IsRoundedUp(rounded[1], fee[1], fee[2])
                     ELSE rounded = fee

\* _round_fees has rounded a base fee of 1/4 up to 1 and a quote fee of -5/4
\* to -2, has left a fee of 1/4 in another symbol as it was
C35_Witness ==
    /\ result.op = "_round_fees" /\ result.pair = BtcUsd
    /\ DOMAIN result.fees = Symbols
    /\ result.fees["BTC"] = <<1, ShareDen>> /\ result.rounded["BTC"] = <<1, 1>>
    /\ result.fees["USD"] = <<-5, ShareDen>> /\ result.rounded["USD"] = <<-2, 1>>
    /\ result.fees["ETH"] = <<1, ShareDen>> /\ result.rounded["ETH"] = <<1, ShareDen>>

\* _round_fees has removed a fee of zero
C35_WitnessZero ==
    /\ result.op = "_round_fees"
    /\ \E s \in DOMAIN result.fees : s \notin DOMAIN result.rounded

C37_ClosedIsAbsorbing ==
    EveryStep(LAMBDA n :
        \A o \in DOMAIN orders :
          ~IsOpen(orders[o]) =>
             /\ n.orders[o] = orders[o]
             /\ n.nbars # nbars =>
                   \A k \in DOMAIN n.barLog.entries : n.barLog.entries[k].id # o)

\* the last bar was of the pair of a COMPLETED and of a CANCELED order that
\* are both still in the open index, and processed neither
C37_Witness ==
    /\ result.op = "bar" /\ result.status = "ok"
    /\ \E o1, o2 \in DOMAIN orders :
          /\ orders[o1].state = "COMPLETED" /\ orders[o2].state = "CANCELED"
          /\ orders[o1].pair = barLog.pair /\ orders[o2].pair = barLog.pair
          /\ \A k \in DOMAIN barLog.entries : barLog.entries[k].id \notin {o1, o2}
          /\ \E k1, k2 \in DOMAIN openItems : openItems[k1] = o1 /\ openItems[k2] = o2

\* --------------------------------------- a Market order before the first bar
\* C38: a valid Market order created before any bar of its pair: a BUY is
\* accepted whatever the balances are, and the ledger stays as it is but for
\* the record of an order that holds nothing; a SELL is accepted if and only
\* if its base amount is available, and then holds exactly its base amount,
\* taken from available, and nothing of any other symbol.
C38_MarketBeforeFirstBar ==
    \A req \in Requests :
        ( /\ CreateOrderEnabled
          /\ req.type = "Market" /\ ValidRequest(req)
          /\ lastBars[req.pair] = NoBar ) =>
             LET n == CreateOrderStep(req)
                 id == Len(orders) + 1
                 base == BaseSymbol(req.pair)
                 amount == req.amount \div ShareDen
             IN  IF req.operation = "BUY"
                 THEN /\ n.result.status = "ok" /\ n.result.id = id
                      /\ IsOpen(n.orders[id])
                      /\ n.balances.available = balances.available
                      /\ n.balances.hold = balances.hold
                      /\ \A s \in Symbols : GetBalanceOnHoldForOrder(n.balances, id, s) = 0
                 ELSE IF balances.available[base] >= amount
                 THEN /\ n.result.status = "ok" /\ n.result.id = id
                      /\ IsOpen(n.orders[id])
                      /\ \A s \in Symbols :
                            LET held == IF s = base THEN amount ELSE 0
                            IN  /\ GetBalanceOnHoldForOrder(n.balances, id, s) = held
                                /\ n.balances.available[s] = balances.available[s] - held
                                /\ n.balances.hold[s] = balances.hold[s] + held
                 ELSE /\ n.result.status = "Not enough balance"
                      /\ n.orders = orders /\ n.balances = balances

\* a Market BUY of 3 units has been accepted before any bar, with 4 units of
\* the quote symbol or less available, and holds nothing
C38_Witness ==
    /\ result.op = "create_order" /\ result.status = "ok"
    /\ nbars = 0
    /\ LET order == orders[result.id]
       IN  /\ order.type = "Market" /\ order.operation = "BUY" /\ order.amount = 3
           /\ balances.available[QuoteSymbol(order.pair)] <= 4
           /\ \A s \in Symbols : GetBalanceOnHoldForOrder(balances, order.id, s) = 0

\* a Market SELL has been accepted before any bar and holds its base amount
C38_WitnessSell ==
    /\ result.op = "create_order" /\ result.status = "ok"
    /\ nbars = 0
    /\ LET order == orders[result.id]
       IN  /\ order.type = "Market" /\ order.operation = "SELL"
           /\ GetBalanceOnHoldForOrder(balances, order.id, BaseSymbol(order.pair))
                 = order.amount

\* ------------------------------------------- the collateral of every loan
\* the loans of the loan manager that are open
OpenManagerLoans(registry) == {id \in DOMAIN registry : registry[id].is_open}

\* C39: in every step of the loan manager and of the exchange, the loans with
\* a recorded collateral are the open loans of the loan manager, before and
\* after the step; create_loan records the required collateral for the loan
\* it registers and for no other, a repayment that succeeds closes the loan
\* and removes its entry and no other, and a repayment that is refused leaves
\* the loan open and its entry in place.
C39_CollateralRecordedIffOpen ==
    /\ DOMAIN collateralByLoan = OpenManagerLoans(managerLoans)
    /\ EveryStepLoans(LAMBDA n :
          /\ DOMAIN n.collateralByLoan = OpenManagerLoans(n.managerLoans)
          /\ \A k \in DOMAIN collateralByLoan \cap DOMAIN n.collateralByLoan :
                n.collateralByLoan[k] = collateralByLoan[k])
    /\ \A symbol \in LoanSymbols, amount \in LoanAmounts,
          collateral \in ManagerCollaterals :
          ManagerCreateLoanEnabled =>
             LET n == ManagerCreateLoanStep(symbol, amount, collateral)
             IN  IF n.result.status = "ok"
                 THEN /\ DOMAIN n.collateralByLoan
                            = DOMAIN collateralByLoan \cup {n.result.id}
                      /\ n.result.id \notin DOMAIN managerLoans
                      /\ n.collateralByLoan[n.result.id] = collateral
                 ELSE /\ n.managerLoans = managerLoans
                      /\ n.collateralByLoan = collateralByLoan
    /\ \A id \in 1..MaxLoans, raw_interest \in ManagerInterests :
          LET n == ManagerRepayLoanStep(id, raw_interest)
          IN  IF n.result.status = "ok"
              THEN /\ DOMAIN n.collateralByLoan = DOMAIN collateralByLoan \ {id}
                   /\ id \in DOMAIN collateralByLoan
                   /\ ~n.managerLoans[id].is_open
              ELSE /\ n.managerLoans = managerLoans
                   /\ n.collateralByLoan = collateralByLoan
                   /\ n.result.status = "NotEnoughBalance" =>
                         managerLoans[id].is_open /\ id \in DOMAIN collateralByLoan

\* a loan of the loan manager has been repaid after a repayment of it had
\* been refused for the balance: it is closed and no collateral is recorded
C39_Witness ==
    /\ result.op = "repay_loan" /\ result.status = "ok"
    /\ result.id \in DOMAIN managerLoans
    /\ ~managerLoans[result.id].is_open
    /\ <<"LoanManager", result.id>> \in refusedRepayments
    /\ collateralByLoan = <<>>

\* ------------------------------------------------- the borrowed balance
\* what the open loans of a registry have borrowed of the symbol
BorrowedByOpenLoans(registry, s) ==
    SumOver([l \in DOMAIN registry |->
                IF registry[l].is_open /\ registry[l].borrowed_symbol = s
                THEN registry[l].borrowed_amount ELSE 0],
            DOMAIN registry)

\* C40: in every reachable state and for every symbol, the borrowed balance
\* is what the open loans, of the exchange and of the loan manager, have
\* borrowed of the symbol; it is not negative, and it is zero when no loan of
\* the symbol is open.
C40_BorrowedIsSumOfOpenLoans ==
    \A s \in Symbols :
        /\ GetBorrowedBalance(balances, s)
              = BorrowedByOpenLoans(loans, s) + BorrowedByOpenLoans(managerLoans, s)
        /\ GetBorrowedBalance(balances, s) >= 0
        /\ ( (\A l \in DOMAIN loans :
                 loans[l].borrowed_symbol = s => ~loans[l].is_open)
             /\ (\A m \in DOMAIN managerLoans :
                    managerLoans[m].borrowed_symbol = s => ~managerLoans[m].is_open) )
            => GetBorrowedBalance(balances, s) = 0

\* a loan of the exchange and a loan of the loan manager were open together,
\* one has been repaid, and what the other borrowed is the borrowed balance
C40_Witness ==
    /\ result.op = "repay_loan" /\ result.status = "ok"
    /\ \E l \in DOMAIN loans, m \in DOMAIN managerLoans :
          /\ loans[l].is_open # managerLoans[m].is_open
          /\ loans[l].borrowed_symbol = "BTC" /\ managerLoans[m].borrowed_symbol = "BTC"
          /\ GetBorrowedBalance(balances, "BTC") = 2

\* every loan has been repaid and nothing is borrowed
C40_WitnessRepaid ==
    /\ result.op = "repay_loan" /\ result.status = "ok"
    /\ loans # <<>> /\ managerLoans # <<>>
    /\ \A l \in DOMAIN loans : ~loans[l].is_open
    /\ \A m \in DOMAIN managerLoans : ~managerLoans[m].is_open
    /\ \A s \in Symbols : GetBorrowedBalance(balances, s) = 0

====
